---- MODULE Spec2Model ----
(***************************************************************************)
(* Skill loader: identifier resolution (SkillResolver), content retrieval  *)
(* with branch fallback and retry (SkillFetcher), security scanning        *)
(* (SecurityValidator) and the import workflow (importSkillHandler).       *)
(*                                                                         *)
(* Strings are sequences of tokens.  A token is a single character, or a   *)
(* fixed literal of the program that never arises from user input (the     *)
(* raw-content origin, a branch name, the file name SKILL.md).             *)
(***************************************************************************)
EXTENDS Integers, Sequences, FiniteSets, TLC

(***************************************************************************)
(* Bounds of the model.                                                    *)
(***************************************************************************)
MaxNameLen == 2
MaxListing == 3
MaxCachedListing == 1
MaxPieces == 7
MaxTicks == 3
MaxContentLen == 2
MaxIssues == 4
MaxBodyLen == 5
MaxYamlLines == 2
MaxStrLen == 4
MaxWords == 3
MaxHeadLen == 2

(***************************************************************************)
(* String helpers: the JavaScript string operations the code relies on.    *)
(***************************************************************************)
Slash == "/"

RECURSIVE SeqsUpTo(_, _)
SeqsUpTo(S, n) ==
  IF n = 0 THEN {<<>>}
  ELSE LET shorter == SeqsUpTo(S, n - 1)
       IN  shorter \cup {Append(s, x) : s \in {t \in shorter : Len(t) = n - 1}, x \in S}

RECURSIVE Concat(_)
Concat(ss) == IF ss = <<>> THEN <<>> ELSE Head(ss) \o Concat(Tail(ss))

RECURSIVE Join(_, _)
Join(ss, sep) ==
  IF ss = <<>> THEN <<>>
  ELSE IF Len(ss) = 1 THEN ss[1]
  ELSE ss[1] \o sep \o Join(Tail(ss), sep)

toLowerCaseChar(c) ==
  CASE c = "P" -> "p"
    [] c = "A" -> "a"
    [] c = "T" -> "t"
    [] c = "D" -> "d"
    [] c = "U" -> "u"
    [] c = "S" -> "s"
    [] OTHER -> c

toLowerCase(s) == [i \in 1..Len(s) |-> toLowerCaseChar(s[i])]

includes(s, t) ==
  \E i \in 0..(Len(s) - Len(t)) : SubSeq(s, i + 1, i + Len(t)) = t

startsWith(s, t) == Len(s) >= Len(t) /\ SubSeq(s, 1, Len(t)) = t

RECURSIVE splitFrom(_, _, _)
splitFrom(s, i, cur) ==
  IF i > Len(s) THEN <<cur>>
  ELSE IF s[i] = Slash THEN <<cur>> \o splitFrom(s, i + 1, <<>>)
  ELSE splitFrom(s, i + 1, Append(cur, s[i]))

split(s) == splitFrom(s, 1, <<>>)

(***************************************************************************)
(* Literals of the program.                                                *)
(***************************************************************************)
skillsLit == <<"s", "k", "i", "l", "l", "s">>
agentSkillsLit == <<"a", "g", "e", "n", "t", "-">> \o skillsLit
githubRawBaseUrl == <<"https://raw.githubusercontent.com">>
skillFile == <<"/", "SKILL.md">>
defaultBranches == <<"main", "master", "HEAD">>
(* A variant with one more attempt. *)
maxRetriesFour == 3 + 1

maxRetries == 3
retryDelayMs == 1000
CACHE_TTL == 3600000

(***************************************************************************)
(* SkillResolver.resolveFromGitHub: an identifier that contains '/'.       *)
(***************************************************************************)
NoResult == [status |-> "none"]
ResolvedOk(coord) == [status |-> "ok", value |-> coord]

ResolutionError(message, identifier, suggestions) ==
  [status |-> "error",
   error |-> [class |-> "SkillResolutionError", message |-> message,
              identifier |-> identifier, suggestions |-> suggestions]]

MainUrl(owner, repo, skillPath) ==
  githubRawBaseUrl \o <<"/">> \o owner \o <<"/">> \o repo \o <<"/", "main", "/">>
    \o skillPath \o skillFile

twoPartRepo == agentSkillsLit

(* A variant that always prepends the sub-path marker. *)
resolveFromGitHubPrepend(identifier) ==
  LET parts == SelectSeq(split(identifier), LAMBDA p : Len(p) > 0)
  IN IF Len(parts) < 2
       THEN ResolutionError("Invalid identifier format", identifier,
                            <<"Try: owner/repo", "Try: owner/repo/skill-name">>)
     ELSE IF Len(parts) = 2
       THEN ResolvedOk([owner |-> parts[1], repo |-> twoPartRepo,
                        skillPath |-> skillsLit \o <<"/">> \o parts[2],
                        fullUrl |-> MainUrl(parts[1], twoPartRepo,
                                            skillsLit \o <<"/">> \o parts[2]),
                        source |-> "github"])
     ELSE LET skillPath == skillsLit \o <<"/">> \o Join(SubSeq(parts, 3, Len(parts)), <<"/">>)
          IN ResolvedOk([owner |-> parts[1], repo |-> parts[2], skillPath |-> skillPath,
                         fullUrl |-> MainUrl(parts[1], parts[2], skillPath),
                         source |-> "github"])

resolveFromGitHub(identifier) ==
  LET parts == SelectSeq(split(identifier), LAMBDA p : Len(p) > 0)
  IN IF Len(parts) < 2
       THEN ResolutionError("Invalid identifier format", identifier,
                            <<"Try: owner/repo", "Try: owner/repo/skill-name">>)
     ELSE IF Len(parts) = 2
       THEN LET owner == parts[1]
                repo == twoPartRepo
                skillPath == skillsLit \o <<"/">> \o parts[2]
            IN ResolvedOk([owner |-> owner, repo |-> repo, skillPath |-> skillPath,
                           fullUrl |-> MainUrl(owner, repo, skillPath),
                           source |-> "github"])
     ELSE LET owner == parts[1]
              repo == parts[2]
              remainingParts == SubSeq(parts, 3, Len(parts))
              skillPath == IF remainingParts[1] = skillsLit
                             THEN Join(remainingParts, <<"/">>)
                             ELSE skillsLit \o <<"/">> \o Join(remainingParts, <<"/">>)
          IN ResolvedOk([owner |-> owner, repo |-> repo, skillPath |-> skillPath,
                         fullUrl |-> MainUrl(owner, repo, skillPath),
                         source |-> "github"])

(***************************************************************************)
(* SkillResolver.resolveFromSkillsSh: the lookup of a short name in the    *)
(* directory listing, once the listing has been obtained.                  *)
(***************************************************************************)
skillShEntryToResolvedSkill(entry) ==
  LET skillPath == skillsLit \o <<"/">> \o entry.name
  IN [owner |-> entry.owner, repo |-> entry.repo, skillPath |-> skillPath,
      fullUrl |-> MainUrl(entry.owner, entry.repo, skillPath),
      source |-> "skills.sh",
      metadata |-> [installs |-> entry.installs, trending |-> FALSE]]

IsExact(entry, identifier) == toLowerCase(entry.name) = toLowerCase(identifier)

IsMatch(entry, identifier) ==
  \/ toLowerCase(entry.name) = toLowerCase(identifier)
  \/ includes(toLowerCase(entry.name), toLowerCase(identifier))

MatchName(entry) == entry.owner \o <<"/">> \o entry.repo \o <<"/">> \o entry.name

(* A variant that takes the first match, exact or not. *)
resolveFromSkillsShFirst(skills, identifier) ==
  LET matches == SelectSeq(skills, LAMBDA s : IsMatch(s, identifier))
  IN IF Len(matches) = 0
       THEN ResolutionError("Skill not found in skills.sh directory", identifier,
                            <<"Try using owner/repo format instead",
                              "Search skills.sh for available skills">>)
       ELSE ResolvedOk(skillShEntryToResolvedSkill(matches[1]))

resolveFromSkillsSh(skills, identifier) ==
  LET matches == SelectSeq(skills, LAMBDA s : IsMatch(s, identifier))
      exact == SelectSeq(matches, LAMBDA s : IsExact(s, identifier))
  IN IF Len(matches) = 0
       THEN ResolutionError("Skill not found in skills.sh directory", identifier,
                            <<"Try using owner/repo format instead",
                              "Search skills.sh for available skills">>)
     ELSE IF Len(matches) > 1
       THEN IF Len(exact) > 0
              THEN ResolvedOk(skillShEntryToResolvedSkill(exact[1]))
              ELSE ResolutionError("Multiple skills match", identifier,
                                   [i \in 1..Len(matches) |-> MatchName(matches[i])])
     ELSE ResolvedOk(skillShEntryToResolvedSkill(matches[1]))

(***************************************************************************)
(* SkillFetcher: URL construction, the errors of fetchUrl, fetchWithRetry  *)
(* and fetchSkill.  statusCode 0 stands for an absent status code.         *)
(***************************************************************************)
(* A variant that builds the address of the page on the repository origin. *)
constructGitHubPageUrl(owner, repo, branch, skillPath) ==
  LET cleanPath == IF startsWith(skillPath, <<"/">>) THEN Tail(skillPath) ELSE skillPath
  IN <<"https://github.com", "/">> \o owner \o <<"/">> \o repo \o <<"/", "blob", "/", branch, "/">>
       \o cleanPath \o skillFile

constructGitHubRawUrl(owner, repo, branch, skillPath) ==
  LET cleanPath == IF startsWith(skillPath, <<"/">>) THEN Tail(skillPath) ELSE skillPath
  IN githubRawBaseUrl \o <<"/">> \o owner \o <<"/">> \o repo \o <<"/", branch, "/">>
       \o cleanPath \o skillFile

NetworkError(message, url, statusCode, retryCount, context) ==
  [class |-> "NetworkError", message |-> message, url |-> url,
   statusCode |-> statusCode, retryCount |-> retryCount, context |-> context]

(* The error fetchUrl throws for an answer that is not a 2xx response. *)
fetchUrlError(answer, url) ==
  CASE answer = "404" ->
         NetworkError("HTTP 404: Not Found", url, 404, 0, [statusText |-> "Not Found"])
    [] answer = "500" ->
         NetworkError("HTTP 500: Internal Server Error", url, 500, 0,
                      [statusText |-> "Internal Server Error"])
    [] OTHER ->
         NetworkError("Failed to fetch URL", url, 0, 0, [originalError |-> "fetch failed"])

(* A variant that recognises no message as a 404. *)
includes404Never(message) == FALSE

(* message.includes('404') over the messages the program produces. *)
includes404(message) == message = "HTTP 404: Not Found"

Pow2(n) == IF n = 0 THEN 1 ELSE IF n = 1 THEN 2 ELSE IF n = 2 THEN 4 ELSE 8

backoffDelay(attempt) == retryDelayMs * Pow2(attempt)

(* fetchWithRetry's catch block: what one failed attempt leads to. *)
retryDecision(error, attempt, url) ==
  IF includes404(error.message)
    THEN [do |-> "throw",
          error |-> NetworkError("Resource not found", url, 404, attempt,
                                 [message |-> "The requested skill file does not exist"])]
  ELSE IF attempt < maxRetries - 1
    THEN [do |-> "sleep", delay |-> backoffDelay(attempt)]
  ELSE [do |-> "throw",
        error |-> NetworkError("Failed to fetch after 3 attempts", url, 0, maxRetries,
                               [lastError |-> error.message,
                                suggestion |-> "Check your internet connection and try again"])]

isLastBranch(b) == b = Len(defaultBranches)

(* fetchSkill's catch block on the last branch: the error fetchSkill throws. *)
fetchSkillError(error, resolved, url, triedBranches) ==
  IF includes404(error.message) \/ error.statusCode = 404
    THEN NetworkError("Skill not found", url, 404, 0,
                      [triedBranches |-> triedBranches,
                       suggestion |-> "Verify the skill name and repository are correct"])
    ELSE IF error.class = "NetworkError"
      THEN error
      ELSE NetworkError("Failed to fetch skill", url, 0, 0,
                        [triedBranches |-> triedBranches, lastError |-> error.message])

(***************************************************************************)
(* SecurityValidator.  A document is its sequence of lines; a pattern is   *)
(* given with the lines of the catalogue it matches (each once).  A        *)
(* location is the 1-based line number and the matched text.               *)
(***************************************************************************)
DANGEROUS_PATTERNS ==
  <<[match |-> "rm -rf", description |-> "Dangerous recursive delete command (rm -rf)",
     lines |-> {"rm -rf /", "sudo rm -rf /etc/"}],
    [match |-> "sudo ", description |-> "Elevated privilege command (sudo)",
     lines |-> {"sudo rm -rf /etc/"}],
    [match |-> "eval(", description |-> "Code evaluation (eval)", lines |-> {}],
    [match |-> "exec(", description |-> "Code execution (exec)", lines |-> {}],
    [match |-> "curl | sh", description |-> "Piping curl output to shell", lines |-> {}],
    [match |-> "wget | sh", description |-> "Piping wget output to shell", lines |-> {}]>>

SUSPICIOUS_FILE_OPS ==
  <<[match |-> "/etc/", description |-> "Access to system configuration directory (/etc/)",
     lines |-> {"cat /etc/passwd", "sudo rm -rf /etc/"}],
    [match |-> "/usr/", description |-> "Access to system binaries directory (/usr/)",
     lines |-> {}],
    [match |-> "/bin/", description |-> "Access to system binaries directory (/bin/)",
     lines |-> {}],
    [match |-> "~/.", description |-> "Access to hidden files in home directory",
     lines |-> {}]>>

CODE_INJECTION_PATTERNS ==
  <<[match |-> "${...}", description |-> "Variable expansion pattern (${...})",
     lines |-> {"echo ${HOME}"}],
    [match |-> "$(...)", description |-> "Command substitution pattern ($(...)",
     lines |-> {}]>>

getLineNumber(content, index) == index

scanPattern(content, p, type) ==
  LET hits == SelectSeq([i \in 1..Len(content) |-> i], LAMBDA i : content[i] \in p.lines)
  IN [k \in 1..Len(hits) |->
        [type |-> type, description |-> p.description,
         location |-> [line |-> getLineNumber(content, hits[k]), match |-> p.match]]]

scanFor(content, patterns, type) ==
  Concat([k \in 1..Len(patterns) |-> scanPattern(content, patterns[k], type)])

scanForDangerousPatterns(content) == scanFor(content, DANGEROUS_PATTERNS, "dangerous_command")
scanForSuspiciousFileOps(content) == scanFor(content, SUSPICIOUS_FILE_OPS, "suspicious_pattern")
scanForCodeInjection(content) == scanFor(content, CODE_INJECTION_PATTERNS, "suspicious_pattern")

isUrlTrusted(url) == startsWith(url, githubRawBaseUrl \o <<"/">>)

(* A variant that does not look at the source of the content. *)
determineSeverityTrusting(issues) ==
  IF Len(issues) = 0 THEN "safe"
  ELSE IF \E i \in 1..Len(issues) : issues[i].type = "dangerous_command"
    THEN "unsafe"
  ELSE "warning"

determineSeverity(issues) ==
  IF Len(issues) = 0 THEN "safe"
  ELSE IF \/ \E i \in 1..Len(issues) : issues[i].type = "untrusted_source"
          \/ \E i \in 1..Len(issues) : issues[i].type = "dangerous_command"
    THEN "unsafe"
  ELSE "warning"

(* A variant whose severity is that of the last issue alone. *)
validationResultOfLast(issues) ==
  LET last == IF issues = <<>> THEN <<>> ELSE <<issues[Len(issues)]>>
  IN [isValid |-> determineSeverity(last) # "unsafe", issues |-> issues,
      severity |-> determineSeverity(last)]

(* The ValidationResult validate builds from the issues it collected. *)
validationResult(issues) ==
  [isValid |-> determineSeverity(issues) # "unsafe", issues |-> issues,
   severity |-> determineSeverity(issues)]

(* A variant that reports the source of the content after the scans. *)
validateSourceLast(raw, url) ==
  LET sourceIssues ==
        IF ~isUrlTrusted(url)
          THEN <<[type |-> "untrusted_source",
                  description |-> "Content does not originate from trusted GitHub domain",
                  location |-> [line |-> 0, match |-> url]]>>
          ELSE <<>>
  IN validationResult(scanForDangerousPatterns(raw) \o scanForSuspiciousFileOps(raw)
                        \o scanForCodeInjection(raw) \o sourceIssues)

validate(raw, url) ==
  LET sourceIssues ==
        IF ~isUrlTrusted(url)
          THEN <<[type |-> "untrusted_source",
                  description |-> "Content does not originate from trusted GitHub domain",
                  location |-> [line |-> 0, match |-> url]]>>
          ELSE <<>>
  IN validationResult(sourceIssues \o scanForDangerousPatterns(raw)
                        \o scanForSuspiciousFileOps(raw) \o scanForCodeInjection(raw))

(* A line that holds nothing but whitespace. *)
isBlankLine(l) == l \in {"", "   "}

(* content.trim().length === 0 *)
isBlank(content) == \A i \in 1..Len(content) : isBlankLine(content[i])

Thrown(message) == [status |-> "error", error |-> [class |-> "Error", message |-> message]]

unknownUrl == <<"unknown">>

validateSkillHandler(content, url) ==
  IF isBlank(content)
    THEN Thrown("Skill content is required")
    ELSE [status |-> "ok", value |-> validate(content, IF url = <<>> THEN unknownUrl ELSE url)]

(***************************************************************************)
(* ConversionEngine.parseSkill and extractSections.  A text is the         *)
(* sequence of its lines, the empty text being one empty line.  The lines  *)
(* come from a catalogue; what String.prototype.trim, the regular          *)
(* expressions and yaml.load make of a line is tabulated per line.         *)
(***************************************************************************)
emptyText == <<"">>

trimStartLine(l) ==
  CASE l = "  FENCE" -> "FENCE"
    [] l = "   " -> ""
    [] OTHER -> l

trimEndLine(l) ==
  CASE l = "   " -> ""
    [] OTHER -> l

(* String.prototype.trim on a text. *)
trim(text) ==
  LET keep == {i \in 1..Len(text) : ~isBlankLine(text[i])}
  IN IF keep = {} THEN emptyText
     ELSE LET lo == CHOOSE i \in keep : \A j \in keep : i <= j
              hi == CHOOSE i \in keep : \A j \in keep : j <= i
          IN [i \in 1..(hi - lo + 1) |->
                LET l == text[lo + i - 1]
                    l1 == IF i = 1 THEN trimStartLine(l) ELSE l
                IN IF i = hi - lo + 1 THEN trimEndLine(l1) ELSE l1]

(* A variant that sees no fence. *)
isFenceLineNever(l) == FALSE

(* line.trim().startsWith of three backticks; FENCE stands for them. *)
isFenceLine(l) == trimStartLine(l) \in {"FENCE"}

(* A variant that gives every heading the level 1. *)
headerMatchFlat(l) ==
  CASE l = "# Test" -> [matched |-> TRUE, level |-> 1, heading |-> "Test"]
    [] l = "### Sub" -> [matched |-> TRUE, level |-> 1, heading |-> "Sub"]
    [] OTHER -> [matched |-> FALSE]

(* line.match(/^(#{1,6})\s+(.+)/): the level and the trimmed heading text. *)
headerMatch(l) ==
  CASE l = "# Test" -> [matched |-> TRUE, level |-> 1, heading |-> "Test"]
    [] l = "### Sub" -> [matched |-> TRUE, level |-> 3, heading |-> "Sub"]
    [] OTHER -> [matched |-> FALSE]

NoSection == [present |-> FALSE]

closeSection(currentSection, currentContent) ==
  [heading |-> currentSection.heading, content |-> trim(currentContent),
   level |-> currentSection.level]

(* The loop of extractSections from line i on, and the code after it. *)
RECURSIVE extractFrom(_, _, _, _, _, _)
extractFrom(lines, i, sections, currentSection, currentContent, inCodeBlock) ==
  IF i > Len(lines)
    THEN IF currentSection.present
           THEN Append(sections, closeSection(currentSection, currentContent))
         ELSE IF Len(currentContent) > 0
           THEN Append(sections, [heading |-> "Content", content |-> trim(currentContent),
                                  level |-> 1])
         ELSE sections
    ELSE LET line == lines[i]
             inCode == IF isFenceLine(line) THEN ~inCodeBlock ELSE inCodeBlock
             h == headerMatch(line)
         IN IF ~inCode /\ h.matched
              THEN extractFrom(lines, i + 1,
                               IF currentSection.present
                                 THEN Append(sections,
                                             closeSection(currentSection, currentContent))
                                 ELSE sections,
                               [present |-> TRUE, heading |-> h.heading, level |-> h.level],
                               <<>>, inCode)
              ELSE extractFrom(lines, i + 1, sections, currentSection,
                               Append(currentContent, line), inCode)

(* A variant that opens the section Content before the first line. *)
extractSectionsFromContent(body) ==
  extractFrom(body, 1, <<>>, [present |-> TRUE, heading |-> "Content", level |-> 1],
              <<>>, FALSE)

extractSections(body) == extractFrom(body, 1, <<>>, NoSection, <<>>, FALSE)

(* The values yaml.load gives. *)
Undefined == [type |-> "undefined"]
NullValue == [type |-> "null"]
StringValue(text) == [type |-> "string", text |-> text]
NumberValue(n) == [type |-> "number", n |-> n]
ArrayValue(items) == [type |-> "array", items |-> items]
MappingValue(map) == [type |-> "mapping", map |-> map]

(* The truthiness of a value, as !value tests it. *)
Truthy(v) ==
  CASE v.type = "string" -> v.text # <<>>
    [] v.type = "number" -> v.n # 0
    [] v.type = "array" -> TRUE
    [] v.type = "mapping" -> TRUE
    [] OTHER -> FALSE

(* object.key *)
property(v, key) ==
  IF v.type = "mapping" /\ key \in DOMAIN v.map THEN v.map[key] ELSE Undefined

TestLit == <<"T", "e", "s", "t">>
DemoLit == <<"D", "e", "m", "o">>

(* What a line of a YAML document is: a key with its value, an item of a
   block sequence, a plain scalar, a blank line, or a line that cannot be
   read (an unclosed flow sequence). *)
yamlLine(l) ==
  CASE l = "name: Test" -> [kind |-> "pair", key |-> "name", value |-> StringValue(TestLit)]
    [] l = "name:" -> [kind |-> "pair", key |-> "name", value |-> NullValue]
    [] l = "name: []" -> [kind |-> "pair", key |-> "name", value |-> ArrayValue(<<>>)]
    [] l = "name: 0" -> [kind |-> "pair", key |-> "name", value |-> NumberValue(0)]
    [] l = "description: Demo" ->
         [kind |-> "pair", key |-> "description", value |-> StringValue(DemoLit)]
    [] l = "description:" -> [kind |-> "pair", key |-> "description", value |-> NullValue]
    [] l = "dependencies: [a]" ->
         [kind |-> "pair", key |-> "dependencies",
          value |-> ArrayValue(<<StringValue(<<"a">>)>>)]
    [] l = "dependencies: []" ->
         [kind |-> "pair", key |-> "dependencies", value |-> ArrayValue(<<>>)]
    [] l = "- item" -> [kind |-> "item", value |-> StringValue(<<"i", "t", "e", "m">>)]
    [] l = "just text" -> [kind |-> "scalar"]
    [] l = "" -> [kind |-> "blank"]
    [] OTHER -> [kind |-> "unreadable"]

(* yaml.load on the lines of a document made of lines of one kind. *)
yamlLoad(lines) ==
  LET kinds == {yamlLine(lines[i]).kind : i \in 1..Len(lines)} \ {"blank"}
      pairs == SelectSeq(lines, LAMBDA l : yamlLine(l).kind = "pair")
      keys == {yamlLine(pairs[i]).key : i \in 1..Len(pairs)}
  IN IF kinds = {} THEN [status |-> "ok", value |-> Undefined]
     ELSE IF kinds = {"scalar"}
       THEN [status |-> "ok", value |-> StringValue(<<"j", "u", "s", "t", " ", "t", "e", "x", "t">>)]
     ELSE IF kinds = {"item"}
       THEN [status |-> "ok",
             value |-> ArrayValue([i \in 1..Len(lines) |-> yamlLine(lines[i]).value])]
     ELSE IF kinds = {"pair"} /\ Cardinality(keys) = Len(pairs)
       THEN [status |-> "ok",
             value |-> MappingValue(
                         [k \in keys |->
                            yamlLine(CHOOSE l \in {pairs[i] : i \in 1..Len(pairs)} :
                                        yamlLine(l).key = k).value])]
     ELSE [status |-> "error"]

(* content.match(/^---\n([\s\S]*?)\n---/): the block ends with the first
   line from the third on that starts with three dashes. *)
startsWithDashes(l) == l \in {"---", "----"}
afterDashes(l) == IF l = "----" THEN "-" ELSE ""

frontmatterMatch(content) ==
  LET closers == {k \in 3..Len(content) : startsWithDashes(content[k])}
  IN IF content[1] = "---" /\ closers # {}
       THEN LET k == CHOOSE c \in closers : \A d \in closers : c <= d
            IN [matched |-> TRUE,
                yamlContent |-> SubSeq(content, 2, k - 1),
                rest |-> <<afterDashes(content[k])>> \o SubSeq(content, k + 1, Len(content))]
       ELSE [matched |-> FALSE]

ParseThrown(class, message) ==
  [status |-> "error", error |-> [class |-> class, message |-> message]]

defaultFrontmatter ==
  MappingValue([k \in {"name", "description"} |->
     IF k = "name"
       THEN StringValue(<<"U", "n", "t", "i", "t", "l", "e", "d", " ", "S", "k", "i", "l", "l">>)
       ELSE StringValue(<<"N", "o", " ", "d", "e", "s", "c", "r", "i", "p", "t", "i", "o", "n",
                          " ", "p", "r", "o", "v", "i", "d", "e", "d">>)])

ParsedSkill(frontmatter, body, warned) ==
  [status |-> "ok",
   value |-> [frontmatter |-> frontmatter, body |-> body,
              sections |-> extractSections(body), warned |-> warned]]

(* parseSkill; warned records the console.warn of the branch without
   frontmatter. *)
parseSkill(content) ==
  IF isBlank(content)
    THEN ParseThrown("ValidationError", "Skill content is empty")
  ELSE LET match == frontmatterMatch(content)
       IN IF match.matched
            THEN LET loaded == yamlLoad(match.yamlContent)
                 IN IF loaded.status = "error"
                      THEN ParseThrown("ParsingError", "Failed to parse YAML frontmatter")
                    ELSE IF ~Truthy(loaded.value)
                              \/ loaded.value.type \notin {"mapping", "array"}
                      THEN ParseThrown("ParsingError", "YAML frontmatter is not a valid object")
                    ELSE IF ~Truthy(property(loaded.value, "name"))
                      THEN ParseThrown("ValidationError",
                                       "Skill frontmatter missing required field: name")
                    ELSE IF ~Truthy(property(loaded.value, "description"))
                      THEN ParseThrown("ValidationError",
                                       "Skill frontmatter missing required field: description")
                    ELSE ParsedSkill(loaded.value, trim(match.rest), FALSE)
            ELSE ParsedSkill(defaultFrontmatter, trim(content), TRUE)

(***************************************************************************)
(* Inputs: short names and directory entries over a two-letter alphabet    *)
(* with both cases, identifiers with separators built from a few pieces.   *)
(***************************************************************************)
NameChars == {"p", "P"}
ShortIds == {n \in SeqsUpTo(NameChars, MaxNameLen) : \A i \in 2..Len(n) : n[i] = "p"}
Names == ShortIds \ {<<>>}
Owners == {<<"a">>, <<"b">>}
RepoOf(o) == IF o = <<"a">> THEN <<"r">> ELSE <<"q">>
InstallsOf(o) == IF o = <<"a">> THEN 973 ELSE 30400
Entries ==
  {[name |-> n, owner |-> o, repo |-> RepoOf(o), installs |-> InstallsOf(o)] :
     n \in Names, o \in Owners}
Listings == SeqsUpTo(Entries, MaxListing)
(* The listings a refresh stores in the resolver specification: entries of
   one owner, which keeps the state space small when the listing grows. *)
CachedListings ==
  {l \in SeqsUpTo(Entries, MaxCachedListing) :
     \A i, j \in 1..Len(l) : l[i].owner = l[j].owner}
ToolListings == SeqsUpTo({e \in Entries : e.owner = <<"a">>}, MaxCachedListing)

IdPieces == {<<"/">>, <<"a">>, skillsLit}
SlashIds == {id \in {Concat(ps) : ps \in SeqsUpTo(IdPieces, MaxPieces)} :
               includes(id, <<"/">>)}
SampleSlashIds ==
  {<<"a", "/", "b">>, <<"/", "p">>, <<"b", "/", "a", "/", "p">>,
   <<"a", "/", "b", "/">> \o skillsLit \o <<"/", "P">>}

Lines == {"", "text", "rm -rf /", "cat /etc/passwd", "sudo rm -rf /etc/", "echo ${HOME}"}
(* Contents of whitespace alone, besides those of empty lines. *)
BlankContents == {<<"   ">>, <<"", "   ">>}
Contents == (SeqsUpTo(Lines, MaxContentLen) \ {<<>>}) \cup BlankContents
FetchedLines == {"text", "rm -rf /", "cat /etc/passwd"}
FetchedDocuments ==
  {<<"">>, <<"", "text">>,
   <<"---", "name: Test", "description: Demo", "---", "# Test", "text">>,
   <<"---", "name: Test", "description: Demo", "---", "rm -rf /">>,
   <<"---", "name: Test", "---", "text">>,
   <<"---", "name: []", "description: Demo", "---", "text">>}
FetchedContents == (SeqsUpTo(FetchedLines, MaxContentLen) \ {<<>>}) \cup FetchedDocuments

Urls ==
  {<<>>, <<"http://example.com/", "SKILL.md">>,
   githubRawBaseUrl \o <<".example.com/", "SKILL.md">>,
   constructGitHubRawUrl(<<"a">>, <<"r">>, "main", skillsLit \o <<"/", "p">>)}
SampleIssues ==
  {[type |-> "untrusted_source",
    description |-> "Content does not originate from trusted GitHub domain",
    location |-> [line |-> 0, match |-> unknownUrl]],
   [type |-> "dangerous_command", description |-> DANGEROUS_PATTERNS[1].description,
    location |-> [line |-> 1, match |-> DANGEROUS_PATTERNS[1].match]],
   [type |-> "suspicious_pattern", description |-> SUSPICIOUS_FILE_OPS[1].description,
    location |-> [line |-> 1, match |-> SUSPICIOUS_FILE_OPS[1].match]]}
IssueSeqs == SeqsUpTo(SampleIssues, MaxIssues)

(* Documents for the parser: bodies over a catalogue of lines, and metadata
   blocks over a catalogue of YAML lines. *)
BodyLines == {"", "Body", "# Test", "### Sub", "FENCE", "  FENCE", "#tag"}
Bodies == SeqsUpTo(BodyLines, MaxBodyLen) \ {<<>>}
YamlLines ==
  {"", "name: Test", "name:", "name: []", "name: 0", "description: Demo", "description:"}
YamlRegions ==
  (SeqsUpTo(YamlLines, MaxYamlLines) \ {<<>>})
    \cup {<<"- item">>, <<"just text">>, <<"name: [">>}
Closers == {"---", "----"}
MetaBodies == {<<>>, <<"Body">>, <<"", "# Test", "", "Body">>}
SampleDocuments ==
  {<<"   ">>, <<"", "   ">>, <<"---">>, <<"---", "name: Test">>, <<"---", "---">>,
   <<"Body", "---", "name: Test", "description: Demo", "---">>}

KebabInputChars == {"A", "a", "1", " ", "_", "-", "!"}
KebabInputs == SeqsUpTo(KebabInputChars, MaxStrLen)

Words ==
  {<<"t", "h", "e">>, <<"T", "h", "e">>, <<"a", "b">>, <<"1", "2", "3">>,
   <<"1", "2", "a">>, <<"t", "a", "p">>, <<"T", "A", "P">>, <<"d", "a", "t", "a">>}
Separators == {<<" ">>, <<" ", " ">>, <<"-">>, <<"!", " ">>, <<>>}
LongDescription ==
  <<<<"d", "a", "t", "a">>, <<"t", "a", "p">>, <<"t", "e", "s", "t">>,
    <<"p", "a", "s", "t", "a">>, <<"s", "p", "a">>, <<"d", "a", "t", "a", "2">>>>
InsertAt(seq, k, x) == SubSeq(seq, 1, k) \o <<x>> \o SubSeq(seq, k + 1, Len(seq))
WordSeqs ==
  SeqsUpTo(Words, MaxWords)
    \cup {InsertAt(LongDescription, k, w) : k \in 0..Len(LongDescription), w \in Words}
Descriptions == {Join(ws, sep) : ws \in WordSeqs, sep \in Separators}

(* Skills for the conversions: with and without a metadata block, with and
   without dependencies, over every short body. *)
SteeringHeads ==
  {<<>>,
   <<"---", "name: Test", "description: Demo", "---">>,
   <<"---", "name: Test", "description: Demo", "dependencies: [a]", "---">>,
   <<"---", "name: Test", "description: Demo", "dependencies: []", "---">>}
SteeringDocuments ==
  {h \o b : h \in SteeringHeads, b \in SeqsUpTo(BodyLines, MaxHeadLen) \ {<<>>}}

Answers == {"ok", "404", "500", "neterr"}
Formats == {"steering", "power", "json"}
ToolIds == {<<>>, <<"p">>, <<"a", "/", "b">>, <<"/", "p">>}
Coordinates ==
  {resolveFromGitHub(<<"a", "/", "b">>).value,
   [owner |-> <<"a">>, repo |-> <<"r">>, skillPath |-> <<"/", "p">>,
    fullUrl |-> MainUrl(<<"a">>, <<"r">>, <<"/", "p">>), source |-> "github"]}

Callers == {1, 2}
RaceIds == {<<"p">>}
RaceListings ==
  {<<[name |-> <<"p">>, owner |-> o, repo |-> RepoOf(o), installs |-> InstallsOf(o)]>> :
     o \in Owners}
TickMs == CACHE_TTL \div 2

(***************************************************************************)
(* State.                                                                  *)
(*   skillsCache  SkillResolver.skillsCache (present = not null)           *)
(*   now          Date.now()                                               *)
(*   calls        one record per call of resolve: its position, its        *)
(*                identifier, the time of the call and the cache it found, *)
(*                the GETs it sent to the directory origin,                *)
(*                whether it read or wrote the cache, and its outcome      *)
(*   fetch        the call of SkillFetcher.fetchSkill: its position, the   *)
(*                loop variables branch and attempt, triedBranches, the    *)
(*                requests sent (refs in order), per ref the answers       *)
(*                received (ok, 404 or transient) and the backoff sleeps,  *)
(*                and its outcome                                          *)
(*   verdict      the last outcome of the validator and its input          *)
(*   parsed       the last outcome of ConversionEngine.parseSkill and its  *)
(*                input                                                    *)
(*   engine       the last call of another operation of ConversionEngine   *)
(*                (toKebabCase, extractKeywords, toSteeringFile): its      *)
(*                input and what it returned                               *)
(*   tool         the running tool handler (fetch_skill or import_skill):  *)
(*                its position, its arguments, how often it called each    *)
(*                step, what the fetch and the validation gave, its result *)
(***************************************************************************)
VARIABLES skillsCache, now, calls, fetch, verdict, parsed, engine, tool

vars == <<skillsCache, now, calls, fetch, verdict, parsed, engine, tool>>

NoVerdict == [input |-> "none", result |-> [status |-> "none"]]
NoParse == [input |-> <<>>, result |-> [status |-> "none"]]
NoEngineCall == [op |-> "none"]
NoArgs == [identifier |-> <<>>, outputFormat |-> "", skipValidation |-> FALSE]
IdleTool ==
  [name |-> "none", pc |-> "idle", args |-> NoArgs,
   resolveCalls |-> 0, fetchCalls |-> 0, validateCalls |-> 0, convertCalls |-> 0,
   resolution |-> NoResult, fetched |-> NoResult, validation |-> NoResult,
   conversion |-> NoResult, result |-> NoResult]

NullCache == [present |-> FALSE, data |-> <<>>, timestamp |-> 0]
IdleCall == [pc |-> "idle", id |-> <<>>, at |-> 0, cached |-> NullCache, gets |-> 0,
             cacheRead |-> FALSE, cacheWrite |-> FALSE, wrote |-> NullCache,
             result |-> NoResult]
NoCoordinate == [owner |-> <<>>, repo |-> <<>>, skillPath |-> <<>>]
Branches == 1..Len(defaultBranches)
IdleFetch ==
  [pc |-> "idle", resolved |-> NoCoordinate, branch |-> 0, attempt |-> 0,
   triedBranches |-> <<>>, requests |-> <<>>,
   answers |-> [b \in Branches |-> <<>>],
   sleeps |-> [b \in Branches |-> <<>>],
   result |-> NoResult]

DirectoryError(statusCode) ==
  [status |-> "error",
   error |-> [class |-> "NetworkError",
              message |-> "Failed to fetch skills.sh directory",
              statusCode |-> statusCode]]

Init ==
  /\ skillsCache = NullCache
  /\ now = 0
  /\ calls = [c \in Callers |-> IdleCall]
  /\ fetch = IdleFetch
  /\ verdict = NoVerdict
  /\ parsed = NoParse
  /\ engine = NoEngineCall
  /\ tool = IdleTool

(***************************************************************************)
(* SkillResolver.resolve and fetchSkillsDirectory.                         *)
(***************************************************************************)
(* A variant whose cache is still valid at exactly one hour. *)
CacheFreshAtInclusive(cache, t) == cache.present /\ (t - cache.timestamp) <= CACHE_TTL

CacheFreshAt(cache, t) == cache.present /\ (t - cache.timestamp) < CACHE_TTL

(* A variant that takes an identifier for a coordinate only when it starts
   with the separator. *)
resolveCallLeading(cache, t, id) ==
  IF startsWith(id, <<"/">>)
    THEN [IdleCall EXCEPT !.pc = "done", !.id = id, !.at = t, !.cached = cache,
                          !.result = resolveFromGitHub(id)]
    ELSE IF CacheFreshAt(cache, t)
      THEN [IdleCall EXCEPT !.pc = "done", !.id = id, !.at = t, !.cached = cache,
                            !.cacheRead = TRUE,
                            !.result = resolveFromSkillsSh(cache.data, id)]
      ELSE [IdleCall EXCEPT !.pc = "awaitFetch", !.id = id, !.at = t, !.cached = cache,
                            !.cacheRead = TRUE,
                            !.gets = 1]

(* resolve(identifier) up to its first suspension point, on a resolver
   whose cache is `cache`: the record of the call. *)
resolveCall(cache, t, id) ==
  IF includes(id, <<"/">>)
    THEN [IdleCall EXCEPT !.pc = "done", !.id = id, !.at = t, !.cached = cache,
                          !.result = resolveFromGitHub(id)]
    ELSE IF CacheFreshAt(cache, t)
      THEN [IdleCall EXCEPT !.pc = "done", !.id = id, !.at = t, !.cached = cache,
                            !.cacheRead = TRUE,
                            !.result = resolveFromSkillsSh(cache.data, id)]
      ELSE [IdleCall EXCEPT !.pc = "awaitFetch", !.id = id, !.at = t, !.cached = cache,
                            !.cacheRead = TRUE,
                            !.gets = 1]

resolve(c, id) ==
  /\ calls[c].pc = "idle"
  /\ calls' = [calls EXCEPT ![c] = resolveCall(skillsCache, now, id)]
  /\ UNCHANGED <<skillsCache, now>>

(* A variant that gives up the cached listing when the refresh fails. *)
DirectoryFailedDiscarding(c, statusCode) ==
  /\ calls' = [calls EXCEPT ![c].pc = "done", ![c].cacheRead = TRUE,
                            ![c].result = DirectoryError(statusCode)]
  /\ UNCHANGED <<skillsCache, now>>

(* fetchSkillsDirectory's catch block: stale data if any, else the error. *)
DirectoryFailed(c, statusCode) ==
  /\ calls' = [calls EXCEPT ![c].pc = "done", ![c].cacheRead = TRUE,
                            ![c].result =
                               IF skillsCache.present
                                 THEN resolveFromSkillsSh(skillsCache.data, calls[c].id)
                                 ELSE DirectoryError(statusCode)]
  /\ UNCHANGED <<skillsCache, now>>

(* The GET to the directory origin returns: a response, or a transport error. *)
DirectoryResponds(c, outcome) ==
  /\ calls[c].pc = "awaitFetch"
  /\ CASE outcome = "ok" ->
             /\ calls' = [calls EXCEPT ![c].pc = "awaitText"]
             /\ UNCHANGED <<skillsCache, now>>
       [] outcome = "http_error" -> DirectoryFailed(c, 500)
       [] OTHER -> DirectoryFailed(c, 0)

(* A variant that stores the new listing under the timestamp already cached. *)
DirectoryTextKeepingTimestamp(c, listing) ==
  /\ calls[c].pc = "awaitText"
  /\ skillsCache' = [present |-> TRUE, data |-> listing,
                     timestamp |-> IF skillsCache.present THEN skillsCache.timestamp
                                                          ELSE now]
  /\ calls' = [calls EXCEPT ![c].pc = "done", ![c].cacheWrite = TRUE,
                            ![c].wrote = skillsCache',
                            ![c].result = resolveFromSkillsSh(listing, calls[c].id)]
  /\ UNCHANGED now

(* response.text() returns the page, whose parse is the listing. *)
DirectoryText(c, listing) ==
  /\ calls[c].pc = "awaitText"
  /\ skillsCache' = [present |-> TRUE, data |-> listing, timestamp |-> now]
  /\ calls' = [calls EXCEPT ![c].pc = "done", ![c].cacheWrite = TRUE,
                            ![c].wrote = skillsCache',
                            ![c].result = resolveFromSkillsSh(listing, calls[c].id)]
  /\ UNCHANGED now

(* response.text() rejects. *)
DirectoryTextFails(c) ==
  /\ calls[c].pc = "awaitText"
  /\ DirectoryFailed(c, 0)

(* The caller takes the outcome of its call. *)
Return(c) ==
  /\ calls[c].pc = "done"
  /\ calls' = [calls EXCEPT ![c] = IdleCall]
  /\ UNCHANGED <<skillsCache, now>>

Tick ==
  /\ now + TickMs <= MaxTicks * TickMs
  /\ now' = now + TickMs
  /\ UNCHANGED <<skillsCache, calls, fetch, verdict, parsed, engine, tool>>

(***************************************************************************)
(* SkillFetcher.fetchSkill with fetchWithRetry inlined: one action per     *)
(* suspension point (the HTTP request, the backoff sleep).                 *)
(***************************************************************************)
BranchUrl(resolved, b) ==
  constructGitHubRawUrl(resolved.owner, resolved.repo, defaultBranches[b], resolved.skillPath)

(* The loop of fetchSkill enters branch b and fetchWithRetry sends its first request. *)
EnterBranch(f, b) ==
  [f EXCEPT !.pc = "request", !.branch = b, !.attempt = 0,
            !.triedBranches = Append(@, defaultBranches[b]),
            !.requests = Append(@, defaultBranches[b])]

fetchSkill(resolved) ==
  /\ fetch.pc = "idle"
  /\ fetch' = EnterBranch([IdleFetch EXCEPT !.resolved = resolved], 1)

(* A variant that reports a missing skill when any ref answered 404. *)
BranchFailedAnyNotFound(f, error) ==
  LET b == f.branch
      url == BranchUrl(f.resolved, b)
      notFound == \E a \in Branches : \E i \in 1..Len(f.answers[a]) : f.answers[a][i] = "404"
  IN IF isLastBranch(b)
       THEN [f EXCEPT !.pc = "done",
                      !.result = [status |-> "error",
                                  error |-> fetchSkillError(
                                              IF notFound
                                                THEN [error EXCEPT !.statusCode = 404]
                                                ELSE error,
                                              f.resolved, url, f.triedBranches)]]
       ELSE EnterBranch(f, b + 1)

(* fetchWithRetry threw `error` for branch b: fetchSkill's catch block. *)
BranchFailed(f, error) ==
  LET b == f.branch
      url == BranchUrl(f.resolved, b)
  IN IF isLastBranch(b)
       THEN [f EXCEPT !.pc = "done",
                      !.result = [status |-> "error",
                                  error |-> fetchSkillError(error, f.resolved, url,
                                                            f.triedBranches)]]
       ELSE EnterBranch(f, b + 1)

AnswerClass(answer) == IF answer \in {"500", "neterr"} THEN "transient" ELSE answer

(* The HTTP request of the current attempt is answered. *)
FetchAnswered(answer, content) ==
  /\ fetch.pc = "request"
  /\ LET b == fetch.branch
         url == BranchUrl(fetch.resolved, b)
         f == [fetch EXCEPT !.answers[b] = Append(@, AnswerClass(answer))]
     IN IF answer = "ok"
          THEN fetch' = [f EXCEPT !.pc = "done",
                                  !.result = [status |-> "ok",
                                              value |-> [raw |-> content, url |-> url,
                                                         source |-> fetch.resolved]]]
          ELSE LET d == retryDecision(fetchUrlError(answer, url), fetch.attempt, url)
               IN IF d.do = "sleep"
                    THEN fetch' = [f EXCEPT !.pc = "sleep",
                                            !.sleeps[b] = Append(@, d.delay)]
                    ELSE fetch' = BranchFailed(f, d.error)

(* The backoff sleep ends: the next attempt sends its request. *)
SleepDone ==
  /\ fetch.pc = "sleep"
  /\ fetch' = [fetch EXCEPT !.pc = "request", !.attempt = @ + 1,
                            !.requests = Append(@, defaultBranches[fetch.branch])]

(* The caller takes the outcome of fetchSkill. *)
FetchReturn ==
  /\ fetch.pc = "done"
  /\ fetch' = IdleFetch

(***************************************************************************)
(* The tool handlers fetchSkillHandler and importSkillHandler.  Each call  *)
(* of fetchSkillHandler constructs its own SkillResolver and SkillFetcher. *)
(***************************************************************************)
(* A variant that reports every failure with one fixed text. *)
ErrorTextGeneric(error) == <<"Import failed">>

(* error instanceof Error ? error.message : String(error) *)
ErrorText(error) == <<error.message>>

(* A statement of the handler threw a TypeError. *)
TypeErrorThrown(message) ==
  [status |-> "error", error |-> [class |-> "TypeError", message |-> message]]

RECURSIVE dropWhile(_, _)
dropWhile(s, class) ==
  IF s = <<>> \/ Head(s) \notin class THEN s ELSE dropWhile(Tail(s), class)

(* s.replace(/[class]+/g, r) *)
RECURSIVE replaceRuns(_, _, _)
replaceRuns(s, class, r) ==
  IF s = <<>> THEN <<>>
  ELSE IF Head(s) \in class
    THEN r \o replaceRuns(dropWhile(s, class), class, r)
    ELSE <<Head(s)>> \o replaceRuns(Tail(s), class, r)

Reverse(s) == [i \in 1..Len(s) |-> s[Len(s) + 1 - i]]

(* String.prototype.trim on a string of characters. *)
trimChars(s) == Reverse(dropWhile(Reverse(dropWhile(s, {" "})), {" "}))

KebabChars ==
  {"a", "b", "c", "d", "e", "f", "g", "h", "i", "j", "k", "l", "m", "n", "o", "p", "q",
   "r", "s", "t", "u", "v", "w", "x", "y", "z",
   "0", "1", "2", "3", "4", "5", "6", "7", "8", "9", "-"}

(* A variant without the last replacement, which strips the hyphens at both
   ends. *)
toKebabCaseUnstripped(str) ==
  LET lowered == toLowerCase(trimChars(str))
      hyphened == replaceRuns(lowered, {" ", "_"}, <<"-">>)
      cleaned == SelectSeq(hyphened, LAMBDA c : c \in KebabChars)
  IN replaceRuns(cleaned, {"-"}, <<"-">>)

(* ConversionEngine.toKebabCase *)
toKebabCase(str) ==
  LET lowered == toLowerCase(trimChars(str))
      hyphened == replaceRuns(lowered, {" ", "_"}, <<"-">>)
      cleaned == SelectSeq(hyphened, LAMBDA c : c \in KebabChars)
      collapsed == replaceRuns(cleaned, {"-"}, <<"-">>)
  IN Reverse(dropWhile(Reverse(dropWhile(collapsed, {"-"})), {"-"}))

stopWords ==
  {<<"t", "h", "e">>, <<"a", "n", "d">>, <<"f", "o", "r">>, <<"w", "i", "t", "h">>,
   <<"t", "h", "i", "s">>, <<"t", "h", "a", "t">>, <<"f", "r", "o", "m">>,
   <<"i", "n", "t", "o">>, <<"w", "h", "e", "n">>, <<"w", "h", "a", "t">>,
   <<"w", "h", "e", "r", "e">>, <<"h", "o", "w">>, <<"w", "h", "y">>,
   <<"c", "a", "n">>, <<"w", "i", "l", "l">>, <<"s", "h", "o", "u", "l", "d">>,
   <<"w", "o", "u", "l", "d">>, <<"c", "o", "u", "l", "d">>, <<"h", "a", "s">>,
   <<"h", "a", "v", "e">>, <<"h", "a", "d">>, <<"a", "r", "e">>, <<"w", "a", "s">>,
   <<"w", "e", "r", "e">>, <<"b", "e", "e", "n">>, <<"b", "e", "i", "n", "g">>,
   <<"y", "o", "u">>, <<"y", "o", "u", "r">>, <<"u", "s", "e">>,
   <<"u", "s", "e", "d">>, <<"u", "s", "i", "n", "g">>}

Digits == {"0", "1", "2", "3", "4", "5", "6", "7", "8", "9"}

(* s.split(/[class]+/): the pieces between the runs, the empty pieces at
   both ends included. *)
RECURSIVE splitOnRuns(_, _, _)
splitOnRuns(s, class, cur) ==
  IF s = <<>> THEN <<cur>>
  ELSE IF Head(s) \in class
    THEN <<cur>> \o splitOnRuns(dropWhile(s, class), class, <<>>)
    ELSE splitOnRuns(Tail(s), class, Append(cur, Head(s)))

(* /^\d+$/.test(word) *)
isNumeric(word) == word # <<>> /\ \A i \in 1..Len(word) : word[i] \in Digits

(* Array.from(new Set(words)) *)
RECURSIVE unique(_, _)
unique(words, seen) ==
  IF words = <<>> THEN <<>>
  ELSE IF Head(words) \in seen THEN unique(Tail(words), seen)
  ELSE <<Head(words)>> \o unique(Tail(words), seen \cup {Head(words)})

(* A variant that takes the first five words before it removes duplicates. *)
extractKeywordsSliceFirst(description) ==
  LET lowered == toLowerCase(description)
      spaced == [i \in 1..Len(lowered) |->
                   IF lowered[i] \in (KebabChars \ {"-"}) \cup {" "} THEN lowered[i] ELSE " "]
      words == SelectSeq(splitOnRuns(spaced, {" "}, <<>>),
                         LAMBDA word : Len(word) >= 3 /\ word \notin stopWords
                                         /\ ~isNumeric(word))
  IN unique(SubSeq(words, 1, IF Len(words) < 5 THEN Len(words) ELSE 5), {})

(* ConversionEngine.extractKeywords *)
extractKeywords(description) ==
  LET lowered == toLowerCase(description)
      spaced == [i \in 1..Len(lowered) |->
                   IF lowered[i] \in (KebabChars \ {"-"}) \cup {" "} THEN lowered[i] ELSE " "]
      words == SelectSeq(splitOnRuns(spaced, {" "}, <<>>),
                         LAMBDA word : Len(word) >= 3 /\ word \notin stopWords
                                         /\ ~isNumeric(word))
      uniqueWords == unique(words, {})
  IN SubSeq(uniqueWords, 1, IF Len(uniqueWords) < 5 THEN Len(uniqueWords) ELSE 5)

(* skill.body.trim().startsWith('#') *)
bodyStartsWithHash(body) == trim(body)[1] \in {"# Test", "### Sub", "#tag"}

footerLine == "*Imported from Claude Skills via Skill Loader Power*"

(* skill.frontmatter.dependencies && skill.frontmatter.dependencies.length > 0,
   and the section written for them. *)
dependenciesSection(frontmatter) ==
  LET dependencies == property(frontmatter, "dependencies")
  IN IF dependencies.type = "array" /\ Len(dependencies.items) > 0
       THEN <<[part |-> "dependencies", items |-> dependencies.items]>>
       ELSE <<>>

(* ConversionEngine.toSteeringFile, for a skill whose name is a string.
   The content is the sequence of the parts written, in order. *)
toSteeringFile(skill, sourceUrl) ==
  LET name == skill.frontmatter.map.name.text
      description == skill.frontmatter.map.description
  IN [filename |-> toKebabCase(name) \o <<".md">>,
      content |->
        <<[part |-> "frontmatter", original_skill |-> name, source_url |-> sourceUrl]>>
        \o (IF bodyStartsWithHash(skill.body) THEN <<>>
            ELSE <<[part |-> "heading", name |-> name]>>)
        \o (IF Truthy(description) THEN <<[part |-> "description", value |-> description]>>
            ELSE <<>>)
        \o <<[part |-> "body", lines |-> skill.body]>>
        \o dependenciesSection(skill.frontmatter)
        \o <<[part |-> "footer", line |-> footerLine]>>,
      originalSkill |-> name]

(* ConversionEngine.toPower, for a skill whose name and description are
   strings. *)
toPower(skill, sourceUrl) ==
  LET name == skill.frontmatter.map.name.text
      powerName == toKebabCase(name)
  IN [powerName |-> powerName,
      content |->
        <<[part |-> "frontmatter", name |-> powerName, displayName |-> name,
           description |-> skill.frontmatter.map.description,
           keywords |-> extractKeywords(skill.frontmatter.map.description.text),
           author |-> "Imported from Claude Skills"]>>
        \o (IF bodyStartsWithHash(skill.body) THEN <<>>
            ELSE <<[part |-> "heading", name |-> name]>>)
        \o <<[part |-> "body", lines |-> skill.body]>>
        \o dependenciesSection(skill.frontmatter)
        \o <<[part |-> "metadata", originalSkill |-> name, sourceUrl |-> sourceUrl]>>]

(* convertToSteeringHandler and convertToPowerHandler: the content check,
   parseSkill, then toSteeringFile or toPower, whose first statement calls
   toKebabCase on the name and throws when the name is not a string. *)
convertHandler(format, content, sourceUrl) ==
  IF isBlank(content)
    THEN Thrown("Skill content is required")
    ELSE LET p == parseSkill(content)
             url == IF sourceUrl = <<>> THEN unknownUrl ELSE sourceUrl
         IN IF p.status = "error" THEN p
            ELSE IF property(p.value.frontmatter, "name").type # "string"
              THEN TypeErrorThrown("str.trim is not a function")
            ELSE IF format = "steering"
              THEN LET out == toSteeringFile(p.value, url)
                   IN [status |-> "ok",
                       value |-> [format |-> format, text |-> out.content, sourceUrl |-> url,
                                  filename |-> out.filename, name |-> out.originalSkill]]
              ELSE LET out == toPower(p.value, url)
                   IN [status |-> "ok",
                       value |-> [format |-> format, text |-> out.content, sourceUrl |-> url,
                                  filename |-> <<"POWER.md">>, name |-> out.powerName]]

ImportFailed(args, sourceUrl, validation, errorText) ==
  [success |-> FALSE, content |-> <<>>, filename |-> <<>>, targetPath |-> <<>>,
   metadata |-> [skillName |-> args.identifier, sourceUrl |-> sourceUrl,
                 outputFormat |-> args.outputFormat, validationResult |-> validation],
   error |-> errorText]

ImportDone(args, fetched, validation, conv) ==
  [success |-> TRUE, content |-> conv.text, filename |-> conv.filename,
   targetPath |-> IF args.outputFormat = "steering"
                    THEN <<".kiro/steering/">> \o conv.filename
                    ELSE <<"~/.kiro/powers/">> \o conv.name \o <<"/", "POWER.md">>,
   metadata |-> [skillName |-> conv.name, sourceUrl |-> fetched.url,
                 outputFormat |-> args.outputFormat, validationResult |-> validation],
   error |-> <<>>]

(* `Security validation failed: ` followed by the joined descriptions. *)
validationErrorText(issues) ==
  <<"Security validation failed: ">>
    \o Join([i \in 1..Len(issues) |-> <<issues[i].description>>], <<", ">>)

(* A variant that never blocks. *)
importBlockedNever(validation) == FALSE

(* The check that blocks the import. *)
importBlocked(validation) == ~validation.isValid

(* A variant that validates twice. *)
importAfterFetchTwice(t, fetched) ==
  LET args == t.args
      v == IF args.skipValidation THEN NoResult
           ELSE validateSkillHandler(fetched.content, fetched.url)
      t1 == [t EXCEPT !.validateCalls = IF args.skipValidation THEN 0 ELSE 2,
                      !.validation = v]
  IN IF v.status = "error"
       THEN [t1 EXCEPT !.pc = "done",
                       !.result = ImportFailed(args, <<>>, NoResult, ErrorText(v.error))]
     ELSE IF v.status = "ok" /\ importBlocked(v.value)
       THEN [t1 EXCEPT !.pc = "done",
                       !.result = ImportFailed(args, fetched.url, v,
                                               validationErrorText(v.value.issues))]
     ELSE LET conv == convertHandler(args.outputFormat, fetched.content, fetched.url)
              t2 == [t1 EXCEPT !.convertCalls = 1, !.conversion = conv]
          IN IF conv.status = "error"
               THEN [t2 EXCEPT !.pc = "done",
                               !.result = ImportFailed(args, <<>>, NoResult,
                                                       ErrorText(conv.error))]
               ELSE [t2 EXCEPT !.pc = "done",
                               !.result = ImportDone(args, fetched, v, conv.value)]

(* importSkillHandler from the fetch result on: validate, then convert. *)
importAfterFetch(t, fetched) ==
  LET args == t.args
      v == IF args.skipValidation THEN NoResult
           ELSE validateSkillHandler(fetched.content, fetched.url)
      t1 == [t EXCEPT !.validateCalls = IF args.skipValidation THEN 0 ELSE 1,
                      !.validation = v]
  IN IF v.status = "error"
       THEN [t1 EXCEPT !.pc = "done",
                       !.result = ImportFailed(args, <<>>, NoResult, ErrorText(v.error))]
     ELSE IF v.status = "ok" /\ importBlocked(v.value)
       THEN [t1 EXCEPT !.pc = "done",
                       !.result = ImportFailed(args, fetched.url, v,
                                               validationErrorText(v.value.issues))]
     ELSE LET conv == convertHandler(args.outputFormat, fetched.content, fetched.url)
              t2 == [t1 EXCEPT !.convertCalls = 1, !.conversion = conv]
          IN IF conv.status = "error"
               THEN [t2 EXCEPT !.pc = "done",
                               !.result = ImportFailed(args, <<>>, NoResult,
                                                       ErrorText(conv.error))]
               ELSE [t2 EXCEPT !.pc = "done",
                               !.result = ImportDone(args, fetched, v, conv.value)]

ToolFailed(t, error) ==
  IF t.name = "import_skill"
    THEN [t EXCEPT !.pc = "done",
                   !.result = ImportFailed(t.args, <<>>, NoResult, ErrorText(error))]
    ELSE [t EXCEPT !.pc = "done", !.result = [status |-> "error", error |-> error]]

(* The tool is called: argument checks, then fetchSkillHandler constructs a
   resolver and calls resolve. *)
ToolCalled(name, args) ==
  /\ tool.pc = "idle"
  /\ LET t == [IdleTool EXCEPT !.name = name, !.args = args]
     IN IF args.identifier = <<>>
          THEN /\ tool' = ToolFailed(t, Thrown("Skill identifier is required").error)
               /\ UNCHANGED <<skillsCache, calls>>
        ELSE IF name = "import_skill" /\ args.outputFormat \notin {"steering", "power"}
          THEN /\ tool' = ToolFailed(t, Thrown("Output format must be steering or power").error)
               /\ UNCHANGED <<skillsCache, calls>>
        ELSE /\ tool' = [t EXCEPT !.pc = "resolving", !.resolveCalls = 1]
             /\ skillsCache' = NullCache
             /\ calls' = [calls EXCEPT ![1] = resolveCall(NullCache, now, args.identifier)]
  /\ UNCHANGED <<now, fetch, verdict, parsed, engine>>

(* resolve has returned or thrown: fetchSkillHandler calls fetchSkill. *)
ToolResolved ==
  /\ tool.pc = "resolving"
  /\ calls[1].pc = "done"
  /\ LET r == calls[1].result
     IN IF r.status = "error"
          THEN /\ tool' = ToolFailed([tool EXCEPT !.resolution = r], r.error)
               /\ UNCHANGED fetch
          ELSE /\ tool' = [tool EXCEPT !.pc = "fetching", !.fetchCalls = 1,
                                       !.resolution = r]
               /\ fetch' = EnterBranch([IdleFetch EXCEPT !.resolved = r.value], 1)
  /\ calls' = [calls EXCEPT ![1] = IdleCall]
  /\ UNCHANGED <<skillsCache, now, verdict, parsed, engine>>

(* fetchSkill has returned or thrown: fetchSkillHandler returns, and
   importSkillHandler validates and converts. *)
ToolFetched ==
  /\ tool.pc = "fetching"
  /\ fetch.pc = "done"
  /\ LET r == fetch.result
     IN IF r.status = "error"
          THEN tool' = ToolFailed([tool EXCEPT !.fetched = r], r.error)
          ELSE LET fetched == [status |-> "ok", content |-> r.value.raw, url |-> r.value.url,
                               owner |-> r.value.source.owner, repo |-> r.value.source.repo,
                               skillPath |-> r.value.source.skillPath]
                   t == [tool EXCEPT !.fetched = fetched]
               IN IF tool.name = "fetch_skill"
                    THEN tool' = [t EXCEPT !.pc = "done", !.result = fetched]
                    ELSE tool' = importAfterFetch(t, fetched)
  /\ fetch' = IdleFetch
  /\ UNCHANGED <<skillsCache, now, calls, verdict, parsed, engine>>

(* The caller takes the tool's result. *)
ToolReturn ==
  /\ tool.pc = "done"
  /\ tool' = IdleTool
  /\ UNCHANGED <<skillsCache, now, calls, fetch, verdict, parsed, engine>>

(***************************************************************************)
(* Specifications.                                                         *)
(***************************************************************************)
ResolveShort == \E id \in ShortIds : resolve(1, id) /\ UNCHANGED <<fetch, verdict, parsed, engine, tool>>
ResolveSlash == \E id \in SampleSlashIds : resolve(1, id) /\ UNCHANGED <<fetch, verdict, parsed, engine, tool>>
DirGet == \E o \in {"ok", "http_error", "transport"} : DirectoryResponds(1, o) /\ UNCHANGED <<fetch, verdict, parsed, engine, tool>>
DirText ==
  /\ calls[1].pc = "awaitText"
  /\ \E l \in Listings : DirectoryText(1, l) /\ UNCHANGED <<fetch, verdict, parsed, engine, tool>>
DirTextCached ==
  /\ calls[1].pc = "awaitText"
  /\ \E l \in CachedListings : DirectoryText(1, l) /\ UNCHANGED <<fetch, verdict, parsed, engine, tool>>
DirTextTool ==
  /\ calls[1].pc = "awaitText"
  /\ \E l \in ToolListings : DirectoryText(1, l) /\ UNCHANGED <<fetch, verdict, parsed, engine, tool>>
DirTextFails == DirectoryTextFails(1) /\ UNCHANGED <<fetch, verdict, parsed, engine, tool>>
Returns == Return(1) /\ UNCHANGED <<fetch, verdict, parsed, engine, tool>>

(* The resolver with its cache and clock. *)
NextResolver ==
  \/ ResolveShort
  \/ ResolveSlash
  \/ DirGet
  \/ DirTextCached
  \/ DirTextFails
  \/ Returns
  \/ Tick

SpecResolver == Init /\ [][NextResolver]_vars

(* Short-name lookup against every listing. *)
NextLookup ==
  \/ ResolveShort
  \/ DirGet
  \/ DirText
  \/ DirTextFails
  \/ Returns

SpecLookup == Init /\ [][NextLookup]_vars

(* Identifiers with separators. *)
ResolveAnySlash == \E id \in SlashIds : resolve(1, id) /\ UNCHANGED <<fetch, verdict, parsed, engine, tool>>

NextGitHub ==
  \/ ResolveAnySlash
  \/ Returns

SpecGitHub == Init /\ [][NextGitHub]_vars

(* One fetchSkill call at a time. *)
FetchStart == \E r \in Coordinates : fetchSkill(r) /\ UNCHANGED <<skillsCache, now, calls, verdict, parsed, engine, tool>>
FetchAnswer ==
  \E a \in Answers, c \in FetchedContents :
     FetchAnswered(a, c) /\ UNCHANGED <<skillsCache, now, calls, verdict, parsed, engine, tool>>
FetchSleepDone == SleepDone /\ UNCHANGED <<skillsCache, now, calls, verdict, parsed, engine, tool>>
FetchReturns == FetchReturn /\ UNCHANGED <<skillsCache, now, calls, verdict, parsed, engine, tool>>

NextFetcher ==
  \/ FetchStart
  \/ FetchAnswer
  \/ FetchSleepDone
  \/ FetchReturns

SpecFetcher == Init /\ [][NextFetcher]_vars

(* The tools fetch_skill and import_skill, end to end. *)
FetchSkillTool ==
  \E id \in ToolIds :
     ToolCalled("fetch_skill", [NoArgs EXCEPT !.identifier = id])
ImportSkillTool ==
  \E id \in ToolIds, f \in Formats, skip \in BOOLEAN :
     ToolCalled("import_skill",
                [identifier |-> id, outputFormat |-> f, skipValidation |-> skip])

NextImport ==
  \/ FetchSkillTool
  \/ ImportSkillTool
  \/ DirGet
  \/ DirTextTool
  \/ DirTextFails
  \/ ToolResolved
  \/ FetchAnswer
  \/ FetchSleepDone
  \/ ToolFetched
  \/ ToolReturn

SpecImport == Init /\ [][NextImport]_vars

(* The validator: the validate_skill tool, and the severity rule on any issues. *)
ValidateSkill ==
  \E c \in Contents, u \in Urls :
     /\ verdict' = [input |-> "content", content |-> c, url |-> u,
                    result |-> validateSkillHandler(c, u)]
     /\ UNCHANGED <<skillsCache, now, calls, fetch, parsed, engine, tool>>

Classify ==
  \E issues \in IssueSeqs :
     /\ verdict' = [input |-> "issues",
                    result |-> [status |-> "ok", value |-> validationResult(issues)]]
     /\ UNCHANGED <<skillsCache, now, calls, fetch, parsed, engine, tool>>

NextValidator ==
  \/ ValidateSkill
  \/ Classify

SpecValidator == Init /\ [][NextValidator]_vars

(* The parser on its own: parseSkill on one document after another. *)
Parse(content) ==
  /\ parsed' = [input |-> content, result |-> parseSkill(content)]
  /\ UNCHANGED <<skillsCache, now, calls, fetch, verdict, engine, tool>>

ParseBody ==
  /\ parsed = NoParse
  /\ \E b \in Bodies : Parse(b)
ParseMetadata ==
  /\ parsed = NoParse
  /\ \E y \in YamlRegions, c \in Closers, b \in MetaBodies :
        Parse(<<"---">> \o y \o <<c>> \o b)
ParseSample ==
  /\ parsed = NoParse
  /\ \E d \in SampleDocuments : Parse(d)

NextParser ==
  \/ ParseBody
  \/ ParseMetadata
  \/ ParseSample

SpecParser == Init /\ [][NextParser]_vars

(* Two callers of one resolver, whose calls may overlap. *)
RaceResolve ==
  \E c \in Callers, id \in RaceIds :
     resolve(c, id) /\ UNCHANGED <<fetch, verdict, parsed, engine, tool>>
RaceDirGet ==
  \E c \in Callers, o \in {"ok", "http_error", "transport"} :
     DirectoryResponds(c, o) /\ UNCHANGED <<fetch, verdict, parsed, engine, tool>>
RaceDirText ==
  \E c \in Callers :
     /\ calls[c].pc = "awaitText"
     /\ \E l \in RaceListings :
           DirectoryText(c, l) /\ UNCHANGED <<fetch, verdict, parsed, engine, tool>>
RaceDirTextFails ==
  \E c \in Callers :
     DirectoryTextFails(c) /\ UNCHANGED <<fetch, verdict, parsed, engine, tool>>
RaceReturns ==
  \E c \in Callers : Return(c) /\ UNCHANGED <<fetch, verdict, parsed, engine, tool>>

NextRace ==
  \/ RaceResolve
  \/ RaceDirGet
  \/ RaceDirText
  \/ RaceDirTextFails
  \/ RaceReturns
  \/ Tick

SpecRace == Init /\ [][NextRace]_vars

(* The helper operations of ConversionEngine, each called once on an input. *)
KebabCase ==
  /\ engine = NoEngineCall
  /\ \E str \in KebabInputs :
        engine' = [op |-> "toKebabCase", input |-> str, result |-> toKebabCase(str)]
  /\ UNCHANGED <<skillsCache, now, calls, fetch, verdict, parsed, tool>>

ExtractKeywords ==
  /\ engine = NoEngineCall
  /\ \E description \in Descriptions :
        engine' = [op |-> "extractKeywords", input |-> description,
                   result |-> extractKeywords(description)]
  /\ UNCHANGED <<skillsCache, now, calls, fetch, verdict, parsed, tool>>

(* parseSkill, then toSteeringFile on the skill it returned. *)
ToSteeringFile ==
  /\ engine = NoEngineCall
  /\ \E content \in SteeringDocuments, sourceUrl \in Urls :
        LET p == parseSkill(content)
        IN /\ p.status = "ok"
           /\ engine' = [op |-> "toSteeringFile", input |-> p.value, sourceUrl |-> sourceUrl,
                         result |-> toSteeringFile(p.value, sourceUrl)]
  /\ UNCHANGED <<skillsCache, now, calls, fetch, verdict, parsed, tool>>

NextEngine ==
  \/ KebabCase
  \/ ExtractKeywords
  \/ ToSteeringFile

SpecEngine == Init /\ [][NextEngine]_vars

(***************************************************************************)
(* Properties.                                                             *)
(***************************************************************************)
ImportEnded == tool.name = "import_skill" /\ tool.pc = "done"
VerdictIs(sev) == tool.validation.status = "ok" /\ tool.validation.value.severity \in sev

(* C1: in importSkillHandler, once the fetch has succeeded, a conversion
   handler is called exactly when validation was skipped or gave a verdict
   that is safe or warning; when validation ran and the verdict is unsafe
   the import fails with "Security validation failed: " followed by the
   issue descriptions joined by ", ", and nothing was converted. *)
C1_UnsafeNeverConverted ==
  (ImportEnded /\ tool.fetched.status = "ok") =>
    /\ (tool.convertCalls = 1) <=>
         (tool.args.skipValidation \/ VerdictIs({"safe", "warning"}))
    /\ (tool.validateCalls = 1 /\ VerdictIs({"unsafe"})) =>
         LET issues == tool.validation.value.issues
             error == tool.result.error
         IN /\ tool.result.success = FALSE
            /\ tool.convertCalls = 0
            /\ Len(error) = 2 * Len(issues)
            /\ error[1] = "Security validation failed: "
            /\ \A i \in 1..Len(issues) : error[2 * i] = issues[i].description
            /\ \A i \in 1..(Len(issues) - 1) : error[2 * i + 1] = ", "

C1_Witness ==
  /\ ImportEnded
  /\ tool.fetched.status = "ok"
  /\ tool.validateCalls = 1
  /\ VerdictIs({"unsafe"})
  /\ Len(tool.validation.value.issues) >= 2
  /\ tool.result.success = FALSE

(* C2: the severity of a verdict is safe when it has no issue, unsafe when
   some issue is an untrusted source or a dangerous command, warning when
   all its issues are suspicious patterns; isValid is true exactly for safe
   and warning. *)
C2_SeverityRule ==
  verdict.result.status = "ok" =>
    LET v == verdict.result.value
        types == {v.issues[i].type : i \in 1..Len(v.issues)}
    IN /\ (v.issues = <<>>) => v.severity = "safe"
       /\ (types \cap {"untrusted_source", "dangerous_command"} # {}) => v.severity = "unsafe"
       /\ (types = {"suspicious_pattern"}) => v.severity = "warning"
       /\ v.severity \in {"safe", "warning", "unsafe"}
       /\ v.isValid <=> v.severity \in {"safe", "warning"}

C2_Witness ==
  /\ verdict.input = "content"
  /\ verdict.result.status = "ok"
  /\ verdict.result.value.severity = "unsafe"
  /\ \A i \in 1..Len(verdict.result.value.issues) :
        verdict.result.value.issues[i].type # "dangerous_command"

RequestsTo(b) ==
  Cardinality({k \in 1..Len(fetch.requests) : fetch.requests[k] = defaultBranches[b]})
Transients(b) == {i \in 1..Len(fetch.answers[b]) : fetch.answers[b][i] = "transient"}

(* C3: a 404 is the last answer of its ref: the fetcher sends no further
   request for that ref and sleeps no more for it, and goes on to the next
   ref in the order main, master, HEAD.  When main answers 404 at once and
   master answers at once, the fetch succeeds after exactly 2 requests and
   no sleep, with the URL built for master. *)
C3_NotFoundNotRetried ==
  /\ fetch.triedBranches = SubSeq(defaultBranches, 1, Len(fetch.triedBranches))
  /\ \A b \in Branches :
       /\ Len(fetch.sleeps[b]) <= Cardinality(Transients(b))
       /\ \A i \in 1..Len(fetch.answers[b]) :
            fetch.answers[b][i] = "404" =>
              /\ i = Len(fetch.answers[b])
              /\ RequestsTo(b) = Len(fetch.answers[b])
              /\ b < Len(defaultBranches) => Len(fetch.triedBranches) > b
              /\ b = Len(defaultBranches) => fetch.pc = "done"
  /\ (fetch.pc = "done" /\ fetch.answers[1] = <<"404">> /\ fetch.answers[2] = <<"ok">>) =>
       /\ fetch.result.status = "ok"
       /\ fetch.requests = <<"main", "master">>
       /\ \A b \in Branches : fetch.sleeps[b] = <<>>
       /\ fetch.result.value.url =
            constructGitHubRawUrl(fetch.resolved.owner, fetch.resolved.repo, "master",
                                  fetch.resolved.skillPath)

C3_Witness ==
  /\ fetch.pc = "done"
  /\ fetch.answers[1] = <<"404">>
  /\ fetch.answers[2] = <<"ok">>
  /\ fetch.result.status = "ok"

(* C4: a ref that fails transiently is tried 3 times in total, with backoff
   delays of 1s, 2s and 4s, before the fetcher goes on to the next ref. *)
C4_BackoffOneTwoFour ==
  \A b \in Branches :
    fetch.answers[b] = <<"transient", "transient", "transient">> =>
      fetch.sleeps[b] = <<1000, 2000, 4000>>

(* C5: when no ref succeeds, the error of fetchSkill carries the list of
   the refs tried (main, master, HEAD) and the last underlying error. *)
C5_ExhaustedErrorCarriesRefsAndCause ==
  (fetch.pc = "done" /\ fetch.result.status = "error") =>
    LET e == fetch.result.error
    IN /\ e.class = "NetworkError"
       /\ "triedBranches" \in DOMAIN e.context
       /\ e.context.triedBranches = defaultBranches
       /\ "lastError" \in DOMAIN e.context

ShortDone == calls[1].pc = "done" /\ ~includes(calls[1].id, <<"/">>) /\ skillsCache.present
ExactAt == {i \in 1..Len(skillsCache.data) :
              toLowerCase(skillsCache.data[i].name) = toLowerCase(calls[1].id)}
PartialAt == {i \in 1..Len(skillsCache.data) :
                /\ i \notin ExactAt
                /\ includes(toLowerCase(skillsCache.data[i].name), toLowerCase(calls[1].id))}

(* C6: a short name that equals the name of exactly one entry of the
   listing, ignoring case, resolves to that entry: its owner and repo, the
   path skills/<name>, the origin skills.sh and its install count, whatever
   else the listing holds and wherever the entry stands. *)
C6_ExactMatchWins ==
  (ShortDone /\ Cardinality(ExactAt) = 1) =>
    LET e == skillsCache.data[CHOOSE i \in ExactAt : TRUE]
        r == calls[1].result
    IN /\ r.status = "ok"
       /\ r.value.owner = e.owner
       /\ r.value.repo = e.repo
       /\ r.value.skillPath = <<"s", "k", "i", "l", "l", "s", "/">> \o e.name
       /\ r.value.source = "skills.sh"
       /\ r.value.metadata.installs = e.installs

C6_Witness ==
  /\ ShortDone
  /\ Cardinality(ExactAt) = 1
  /\ \E i \in PartialAt : \A j \in ExactAt : i < j
  /\ calls[1].result.status = "ok"

(* C7: resolve never picks among tied matches: with several different
   entries that match partially and no exact one, or with several different
   entries that match exactly, it fails with the error that lists every
   tied candidate as owner/repo/name. *)
C7_TiesAreAmbiguous ==
  LET tied == IF ExactAt # {} THEN ExactAt ELSE PartialAt
  IN (ShortDone /\ Cardinality({skillsCache.data[i] : i \in tied}) >= 2) =>
       /\ calls[1].result.status = "error"
       /\ calls[1].result.error.message = "Multiple skills match"
       /\ \A i \in tied :
            \E k \in 1..Len(calls[1].result.error.suggestions) :
               calls[1].result.error.suggestions[k] =
                 skillsCache.data[i].owner \o <<"/">> \o skillsCache.data[i].repo
                   \o <<"/">> \o skillsCache.data[i].name

Segments(id) == SelectSeq(split(id), LAMBDA p : p # <<>>)
SlashDone == calls[1].pc = "done" /\ includes(calls[1].id, <<"/">>)

(* C8: an identifier with a separator and at least 2 non-empty segments
   resolves to a coordinate without any request to the directory origin and
   without a read or a write of the directory cache. *)
C8_CoordinateNeedsNoDirectory ==
  (SlashDone /\ Len(Segments(calls[1].id)) >= 2) =>
    /\ calls[1].result.status = "ok"
    /\ calls[1].gets = 0
    /\ ~calls[1].cacheRead
    /\ ~calls[1].cacheWrite

C8_Witness ==
  /\ SlashDone
  /\ Len(Segments(calls[1].id)) >= 2
  /\ skillsCache.present
  /\ now - skillsCache.timestamp >= CACHE_TTL
  /\ calls[1].result.status = "ok"

(* C9: with the empty segments dropped, 2 segments (o, n) give owner o, the
   repository agent-skills and the path skills/n; 3 or more (o, r, rest)
   give owner o, repo r and rest joined by '/', with skills/ put in front
   unless rest starts with the segment skills; fewer than 2 fail with the
   format error that suggests both shapes.  The origin is always github. *)
C9_SegmentsToCoordinate ==
  SlashDone =>
    LET parts == Segments(calls[1].id)
        r == calls[1].result
        rest == SubSeq(parts, 3, Len(parts))
    IN /\ Len(parts) < 2 =>
            /\ r.status = "error"
            /\ r.error.message = "Invalid identifier format"
            /\ r.error.suggestions = <<"Try: owner/repo", "Try: owner/repo/skill-name">>
       /\ Len(parts) = 2 =>
            /\ r.status = "ok"
            /\ r.value.owner = parts[1]
            /\ r.value.repo = <<"a", "g", "e", "n", "t", "-", "s", "k", "i", "l", "l", "s">>
            /\ r.value.skillPath = <<"s", "k", "i", "l", "l", "s", "/">> \o parts[2]
            /\ r.value.source = "github"
       /\ Len(parts) >= 3 =>
            /\ r.status = "ok"
            /\ r.value.owner = parts[1]
            /\ r.value.repo = parts[2]
            /\ r.value.skillPath =
                 IF rest[1] = <<"s", "k", "i", "l", "l", "s">>
                   THEN Join(rest, <<"/">>)
                   ELSE <<"s", "k", "i", "l", "l", "s", "/">> \o Join(rest, <<"/">>)
            /\ r.value.source = "github"

C9_Witness ==
  /\ SlashDone
  /\ Len(Segments(calls[1].id)) >= 4
  /\ Segments(calls[1].id)[3] = <<"s", "k", "i", "l", "l", "s">>
  /\ calls[1].result.status = "ok"
  /\ calls[1].result.value.skillPath = Join(SubSeq(Segments(calls[1].id), 3, 4), <<"/">>)

(* C10: fetch_skill with a two-segment identifier owner/name resolves it to
   the repository skills and the path skills/name, and requests
   https://raw.githubusercontent.com/owner/skills/main/skills/name/SKILL.md
   first. *)
C10_TwoSegmentsUseSkillsRepo ==
  (/\ tool.name = "fetch_skill"
   /\ tool.pc = "fetching"
   /\ Len(Segments(tool.args.identifier)) = 2) =>
    LET owner == Segments(tool.args.identifier)[1]
        name == Segments(tool.args.identifier)[2]
        path == <<"s", "k", "i", "l", "l", "s", "/">> \o name
    IN /\ fetch.resolved.owner = owner
       /\ fetch.resolved.repo = <<"s", "k", "i", "l", "l", "s">>
       /\ fetch.resolved.skillPath = path
       /\ fetch.requests[1] = "main"
       /\ BranchUrl(fetch.resolved, 1) =
            <<"https://raw.githubusercontent.com", "/">> \o owner
              \o <<"/", "s", "k", "i", "l", "l", "s", "/", "main", "/">> \o path
              \o <<"/", "SKILL.md">>

CallDone == calls[1].pc = "done"
ShortCall == calls[1].pc # "idle" /\ ~includes(calls[1].id, <<"/">>)
CacheAge == calls[1].at - calls[1].cached.timestamp

(* C11: a call of resolve ends either with a coordinate whose owner, repo,
   path, URL and origin are all set, or with a resolution error that is the
   not-found, the ambiguous or the malformed-identifier one; also when the
   directory listing cannot be retrieved and no listing is cached. *)
C11_CoordinateOrResolutionError ==
  CallDone =>
    LET r == calls[1].result
    IN \/ /\ r.status = "ok"
          /\ r.value.owner # <<>>
          /\ r.value.repo # <<>>
          /\ r.value.skillPath # <<>>
          /\ r.value.fullUrl # <<>>
          /\ r.value.source \in {"github", "skills.sh"}
       \/ /\ r.status = "error"
          /\ r.error.class = "SkillResolutionError"
          /\ r.error.message \in {"Skill not found in skills.sh directory",
                                  "Multiple skills match", "Invalid identifier format"}

(* C12: a short-name resolve that finds a listing cached less than 1 hour
   before uses that listing, sends no GET to the directory origin and leaves
   the cache as it is; one that finds a listing cached 1 hour before or
   earlier sends one GET, and when the refresh succeeds the cache holds the
   listing the call resolved against, with a timestamp taken during the
   call. *)
C12_CacheValidForOneHour ==
  (ShortCall /\ calls[1].cached.present) =>
    /\ CacheAge < 3600000 =>
         /\ CallDone
         /\ calls[1].gets = 0
         /\ ~calls[1].cacheWrite
         /\ skillsCache = calls[1].cached
         /\ calls[1].result = resolveFromSkillsSh(calls[1].cached.data, calls[1].id)
    /\ CacheAge >= 3600000 =>
         /\ calls[1].gets = 1
         /\ calls[1].cacheWrite =>
              /\ CallDone
              /\ skillsCache.present
              /\ skillsCache.timestamp >= calls[1].at
              /\ skillsCache.timestamp <= now
              /\ calls[1].result = resolveFromSkillsSh(skillsCache.data, calls[1].id)
         /\ ~calls[1].cacheWrite => skillsCache = calls[1].cached

C12_Witness ==
  /\ ShortCall
  /\ CallDone
  /\ calls[1].cached.present
  /\ CacheAge >= 3600000
  /\ calls[1].cacheWrite
  /\ skillsCache.data # calls[1].cached.data
  /\ skillsCache.timestamp > calls[1].cached.timestamp

RefreshFailed == ShortCall /\ CallDone /\ calls[1].gets = 1 /\ ~calls[1].cacheWrite

(* C13: when the GET of a refresh fails (a response that is not OK, a
   transport error, or a body that cannot be read) and a listing is cached,
   of any age, the call resolves against the cached listing and the cache
   keeps its data and timestamp; the call fails with the network error only
   when nothing is cached. *)
C13_StaleOnRefreshFailure ==
  RefreshFailed =>
    IF calls[1].cached.present
      THEN /\ skillsCache = calls[1].cached
           /\ calls[1].result = resolveFromSkillsSh(calls[1].cached.data, calls[1].id)
      ELSE /\ ~skillsCache.present
           /\ calls[1].result.status = "error"
           /\ calls[1].result.error.class = "NetworkError"
           /\ calls[1].result.error.message = "Failed to fetch skills.sh directory"

C13_Witness ==
  /\ RefreshFailed
  /\ calls[1].cached.present
  /\ CacheAge > 3600000
  /\ calls[1].result.status = "ok"
  /\ skillsCache = calls[1].cached

(* C14: the tools share one directory cache for the life of the process:
   when a tool is called with a short name while a listing fetched by an
   earlier tool call less than 1 hour before exists, its resolve is served
   from that listing and sends no GET to the directory origin. *)
C14_OneCacheForAllToolCalls ==
  [][(/\ tool.pc = "idle"
      /\ tool'.pc = "resolving"
      /\ ~includes(tool'.args.identifier, <<"/">>)
      /\ skillsCache.present
      /\ now - skillsCache.timestamp < 3600000)
       => (calls'[1].gets = 0 /\ calls'[1].pc = "done" /\ skillsCache' = skillsCache)]_vars

ParsedOk == parsed.result.status = "ok"
FenceLines == {"FENCE", "  FENCE"}
HeadingLines == {"# Test", "### Sub"}
HashCount(l) == IF l = "# Test" THEN 1 ELSE 3
HeadingText(l) == IF l = "# Test" THEN "Test" ELSE "Sub"

(* Line i of the body lies in a fenced block: an odd number of fence lines
   stand at or before it. *)
InsideFence(body, i) == Cardinality({j \in 1..i : body[j] \in FenceLines}) % 2 = 1
HeadingsOutside(body) ==
  {i \in 1..Len(body) : body[i] \in HeadingLines /\ ~InsideFence(body, i)}
NthOf(S, k) == CHOOSE i \in S : Cardinality({j \in S : j < i}) = k - 1
ClosedFenceWithComment(body) ==
  \E i, j, k \in 1..Len(body) :
     /\ i < j /\ j < k
     /\ body[i] \in FenceLines /\ body[k] \in FenceLines
     /\ body[j] \in HeadingLines
     /\ InsideFence(body, j)

(* C17: a line of the body that starts with '#' and lies inside a fenced
   block starts no section: there are never more sections than heading
   lines outside fences (one when there is none), and a body of one heading
   line followed by fenced text gives exactly one section, whose content is
   everything after the heading, trimmed, the '#' lines in the fence included. *)
C17_NoSectionInsideFence ==
  ParsedOk =>
    LET body == parsed.result.value.body
        sections == parsed.result.value.sections
        outside == HeadingsOutside(body)
    IN /\ Len(sections) <= (IF outside = {} THEN 1 ELSE Cardinality(outside))
       /\ outside = {1} =>
            /\ Len(sections) = 1
            /\ sections[1].content = trim(SubSeq(body, 2, Len(body)))
            /\ \A i \in 3..Len(body) - 1 :
                 body[i] \in HeadingLines => \E j \in 1..Len(sections[1].content) :
                                               sections[1].content[j] = body[i]

C17_Witness ==
  /\ ParsedOk
  /\ HeadingsOutside(parsed.result.value.body) = {1}
  /\ ClosedFenceWithComment(parsed.result.value.body)
  /\ Len(parsed.result.value.sections) = 1
  /\ Len(parsed.result.value.sections[1].content) >= 3

ScenarioDocument ==
  <<"---", "name: Test", "description: Demo", "---", "", "# Test", "", "Body">>

(* C18: the sections of a parsed document are, in order, one per heading
   line outside fenced blocks, with the number of '#' (1 to 6) as level, the
   heading text as heading, and as content the trimmed lines up to the next
   heading line outside a fence; a body without such a line gives the one
   section Content of level 1 that holds the whole body.  The document with
   name Test, description Demo and the body '# Test', blank, 'Body' gives
   that metadata and the one section (Test, 1, Body). *)
C18_OneSectionPerHeading ==
  ParsedOk =>
    LET body == parsed.result.value.body
        sections == parsed.result.value.sections
        outside == HeadingsOutside(body)
        n == Cardinality(outside)
        last(k) == IF k = n THEN Len(body) ELSE NthOf(outside, k + 1) - 1
    IN /\ outside = {} =>
            sections = <<[heading |-> "Content", content |-> body, level |-> 1]>>
       /\ outside # {} =>
            /\ Len(sections) = n
            /\ \A k \in 1..n :
                 LET i == NthOf(outside, k)
                 IN /\ sections[k].level = HashCount(body[i])
                    /\ sections[k].level \in 1..6
                    /\ sections[k].heading = HeadingText(body[i])
                    /\ sections[k].content = trim(SubSeq(body, i + 1, last(k)))
       /\ parsed.input = ScenarioDocument =>
            /\ parsed.result.value.frontmatter.map.name.text = <<"T", "e", "s", "t">>
            /\ parsed.result.value.frontmatter.map.description.text = <<"D", "e", "m", "o">>
            /\ sections = <<[heading |-> "Test", content |-> <<"Body">>, level |-> 1]>>

C18_Witness ==
  /\ ParsedOk
  /\ parsed.input = ScenarioDocument
  /\ parsed.result.value.sections =
       <<[heading |-> "Test", content |-> <<"Body">>, level |-> 1]>>

(* The text opens with a metadata block: a first line of exactly three
   dashes, a middle region, and a later line of exactly three dashes. *)
ClosingLines(input) == {k \in 3..Len(input) : input[k] = "---"}
HasBlock(input) == Len(input) >= 3 /\ input[1] = "---" /\ ClosingLines(input) # {}
BlockRegion(input) ==
  SubSeq(input, 2, (CHOOSE k \in ClosingLines(input) : \A d \in ClosingLines(input) : k <= d) - 1)
IsEmptyInput(input) == \A i \in 1..Len(input) : input[i] \in {"", "   "}
NonEmptyValue(v) ==
  CASE v.type = "string" -> v.text # <<>>
    [] v.type = "array" -> v.items # <<>>
    [] v.type = "number" -> TRUE
    [] OTHER -> FALSE
ParsedName == parsed.result.value.frontmatter.map.name
ParsedDescription == parsed.result.value.frontmatter.map.description

(* C19: every document that parse returns has a non-empty name and a
   non-empty description, those of the metadata block when the text opens
   with one and the defaults, with a warning, when it does not; a text that
   is not empty and has no metadata block is never refused. *)
C19_NameAndDescriptionNonEmpty ==
  parsed.result.status # "none" =>
    /\ ParsedOk =>
         /\ NonEmptyValue(ParsedName)
         /\ NonEmptyValue(ParsedDescription)
         /\ HasBlock(parsed.input) =>
              /\ parsed.result.value.frontmatter = yamlLoad(BlockRegion(parsed.input)).value
              /\ ~parsed.result.value.warned
         /\ ~HasBlock(parsed.input) =>
              /\ parsed.result.value.frontmatter = defaultFrontmatter
              /\ parsed.result.value.warned
    /\ (~HasBlock(parsed.input) /\ ~IsEmptyInput(parsed.input)) => ParsedOk

(* The metadata block is a mapping with a name and a description. *)
Has(value, key) ==
  /\ value.type = "mapping"
  /\ key \in DOMAIN value.map
  /\ value.map[key].type \notin {"null", "undefined"}
BlockIsInvalid(input) ==
  LET loaded == yamlLoad(BlockRegion(input))
  IN \/ loaded.status = "error"
     \/ loaded.value.type # "mapping"
     \/ ~Has(loaded.value, "name")
     \/ ~Has(loaded.value, "description")

(* C20: parse fails exactly when the text is empty or whitespace only, or
   opens with a metadata block whose content is not a mapping or whose
   mapping lacks a name or a description; in every other case it returns a
   document. *)
C20_FailsExactlyOnInvalidInput ==
  parsed.result.status # "none" =>
    (parsed.result.status = "error"
       <=> (IsEmptyInput(parsed.input)
              \/ (HasBlock(parsed.input) /\ BlockIsInvalid(parsed.input))))

ImportRun == tool.name = "import_skill" /\ tool.pc # "idle"
ValidArguments ==
  tool.args.identifier # <<>> /\ tool.args.outputFormat \in {"steering", "power"}
ValidationPassed ==
  tool.args.skipValidation
    \/ (tool.validateCalls = 1 /\ tool.validation.status = "ok"
          /\ tool.validation.value.isValid)

(* C15: in a run of the import pipeline with valid arguments resolve is
   called exactly once, and fetch, validate and convert at most once, each
   only after the step before it has succeeded (validate not at all when
   skipped, convert only on a content that passed or skipped validation);
   the coordinate the fetcher works on is the one resolve returned; the run
   ends with success true exactly when the conversion was made, and with
   success false otherwise. *)
C15_StepsInOrderAtMostOnce ==
  (ImportRun /\ ValidArguments) =>
    /\ tool.resolveCalls = 1
    /\ tool.fetchCalls \in {0, 1} /\ tool.validateCalls \in {0, 1}
    /\ tool.convertCalls \in {0, 1}
    /\ tool.fetchCalls = 1 <=> tool.resolution.status = "ok"
    /\ tool.pc = "fetching" =>
         /\ fetch.pc # "idle"
         /\ fetch.resolved = tool.resolution.value
    /\ tool.fetched.status = "ok" =>
         /\ tool.fetched.owner = tool.resolution.value.owner
         /\ tool.fetched.repo = tool.resolution.value.repo
         /\ tool.fetched.skillPath = tool.resolution.value.skillPath
    /\ tool.validateCalls = 1 <=> (tool.fetched.status = "ok" /\ ~tool.args.skipValidation)
    /\ tool.convertCalls = 1 <=> (tool.fetched.status = "ok" /\ ValidationPassed)
    /\ tool.pc = "done" =>
         /\ tool.result.success \in BOOLEAN
         /\ tool.result.success <=>
              (tool.convertCalls = 1 /\ tool.conversion.status = "ok")
         /\ ~tool.result.success <=>
              \/ tool.resolution.status = "error"
              \/ tool.fetched.status = "error"
              \/ (tool.validateCalls = 1 /\ ~ValidationPassed)
              \/ tool.conversion.status = "error"

C15_Witness ==
  /\ ImportRun /\ ValidArguments /\ tool.pc = "done"
  /\ tool.resolveCalls = 1 /\ tool.fetchCalls = 1 /\ tool.validateCalls = 1
  /\ tool.convertCalls = 1
  /\ tool.result.success

(* The message of the step that ended the run. *)
FailingStepMessage ==
  IF tool.resolution.status = "error" THEN <<tool.resolution.error.message>>
  ELSE IF tool.fetched.status = "error" THEN <<tool.fetched.error.message>>
  ELSE IF tool.validation.status = "error" THEN <<tool.validation.error.message>>
  ELSE IF tool.conversion.status = "error" THEN <<tool.conversion.error.message>>
  ELSE <<>>
ArgumentMessages ==
  {<<"Skill identifier is required">>, <<"Output format must be steering or power">>}
BlockedByVerdict ==
  /\ tool.validation.status = "ok"
  /\ ~tool.validation.value.isValid

(* C16: the result of an import is either a success with a content, a
   filename and a target path that are not empty and no error, or a failure
   with an empty content, filename and target path whose error is the
   message of the step that failed, unchanged (for a content the verdict
   blocks: the joined descriptions of its issues). *)
C16_SuccessOrFailureWithoutOutput ==
  ImportEnded =>
    \/ /\ tool.result.success
       /\ tool.result.content # <<>>
       /\ tool.result.filename # <<>>
       /\ tool.result.targetPath # <<>>
       /\ tool.result.error = <<>>
    \/ /\ ~tool.result.success
       /\ tool.result.content = <<>>
       /\ tool.result.filename = <<>>
       /\ tool.result.targetPath = <<>>
       /\ tool.result.error # <<>>
       /\ IF ~ValidArguments THEN tool.result.error \in ArgumentMessages
          ELSE IF BlockedByVerdict
            THEN tool.result.error =
                   <<"Security validation failed: ">>
                     \o Join([i \in 1..Len(tool.validation.value.issues) |->
                                <<tool.validation.value.issues[i].description>>], <<", ">>)
          ELSE tool.result.error = FailingStepMessage

C16_Witness ==
  /\ ImportEnded
  /\ ~tool.result.success
  /\ tool.conversion.status = "error"
  /\ tool.result.error = <<"Skill frontmatter missing required field: description">>
  /\ tool.result.content = <<>>

KebabCalled == engine.op = "toKebabCase"

(* C21: toKebabCase applied to its own result gives that result again, and
   the result holds only lower-case letters, digits and hyphens, never two
   hyphens in a row, and no hyphen at either end. *)
C21_KebabCaseIdempotent ==
  KebabCalled =>
    LET r == engine.result
    IN /\ toKebabCase(r) = r
       /\ \A i \in 1..Len(r) : r[i] \in {"a", "1", "-"}
       /\ \A i \in 1..Len(r) - 1 : ~(r[i] = "-" /\ r[i + 1] = "-")
       /\ r # <<>> => (r[1] # "-" /\ r[Len(r)] # "-")

C21_Witness ==
  /\ KebabCalled
  /\ engine.input = <<"_", "A", " ", "1">>
  /\ engine.result = <<"a", "-", "1">>

KeywordsCalled == engine.op = "extractKeywords"
LowerOf(c) ==
  CASE c = "T" -> "t" [] c = "A" -> "a" [] c = "P" -> "p" [] OTHER -> c
IsAlnum(c) == LowerOf(c) \in KebabChars \ {"-"}

(* The tokens of a description: its maximal runs of letters and digits,
   lower-cased, by position. *)
TokenStarts(d) ==
  {i \in 1..Len(d) : IsAlnum(d[i]) /\ (i = 1 \/ ~IsAlnum(d[i - 1]))}
TokenAt(d, i) ==
  LET end == CHOOSE j \in i..Len(d) :
                /\ \A k \in i..j : IsAlnum(d[k])
                /\ (j = Len(d) \/ ~IsAlnum(d[j + 1]))
  IN [k \in 1..(end - i + 1) |-> LowerOf(d[i + k - 1])]
IsKeyword(word) ==
  /\ Len(word) >= 3
  /\ word \notin stopWords
  /\ \E k \in 1..Len(word) : word[k] \notin Digits
(* The positions at which a keyword occurs for the first time. *)
FirstOccurrences(d) ==
  {i \in TokenStarts(d) :
     /\ IsKeyword(TokenAt(d, i))
     /\ \A j \in TokenStarts(d) : j < i => TokenAt(d, j) # TokenAt(d, i)}

(* C24: the keywords of a description are the first five (or fewer) distinct
   tokens, in the order of their first occurrence, among the tokens of the
   lower-cased description that have three characters or more, are no stop
   word and are not all digits; the result has at most five entries and no
   duplicate, stop word, short token or all-digit token. *)
C24_KeywordsAreFirstFiveDistinct ==
  KeywordsCalled =>
    LET d == engine.input
        r == engine.result
        first == FirstOccurrences(d)
        n == IF Cardinality(first) < 5 THEN Cardinality(first) ELSE 5
    IN /\ Len(r) = n
       /\ \A k \in 1..n : r[k] = TokenAt(d, NthOf(first, k))
       /\ Len(r) <= 5
       /\ \A j, k \in 1..Len(r) : j # k => r[j] # r[k]
       /\ \A k \in 1..Len(r) : IsKeyword(r[k])

C24_Witness ==
  /\ KeywordsCalled
  /\ Len(engine.result) = 5
  /\ Cardinality(FirstOccurrences(engine.input)) = 6
  /\ \E i \in TokenStarts(engine.input) : TokenAt(engine.input, i) = <<"t", "h", "e">>

SeverityRank(severity) ==
  CASE severity = "safe" -> 0 [] severity = "warning" -> 1 [] severity = "unsafe" -> 2
VerdictGiven == verdict.result.status = "ok"
IssueAppended ==
  /\ VerdictGiven
  /\ verdict'.result.status = "ok"
  /\ Len(verdict'.result.value.issues) = Len(verdict.result.value.issues) + 1
  /\ SubSeq(verdict'.result.value.issues, 1, Len(verdict.result.value.issues))
       = verdict.result.value.issues

(* C22: when the issues of one verdict are those of another with one issue
   appended, the severity is not lower (safe < warning < unsafe); it is
   unsafe when the appended issue is a dangerous command or an untrusted
   source, and it stays unsafe whatever is appended. *)
C22_SeverityMonotonic ==
  [][IssueAppended =>
       LET before == verdict.result.value
           after == verdict'.result.value
           added == after.issues[Len(after.issues)]
       IN /\ SeverityRank(after.severity) >= SeverityRank(before.severity)
          /\ added.type \in {"dangerous_command", "untrusted_source"}
               => after.severity = "unsafe"
          /\ before.severity = "unsafe" => after.severity = "unsafe"]_vars

C22_Witness ==
  /\ VerdictGiven
  /\ verdict.input = "issues"
  /\ Len(verdict.result.value.issues) = 3
  /\ verdict.result.value.issues[1].type = "suspicious_pattern"
  /\ verdict.result.value.issues[2].type = "dangerous_command"
  /\ verdict.result.value.issues[3].type = "suspicious_pattern"
  /\ verdict.result.value.severity = "unsafe"

StructuredErrors == {"SkillResolutionError", "NetworkError"}
RefreshCompletes(c) ==
  /\ calls[c].pc = "awaitText"
  /\ calls'[c].pc = "done"
  /\ calls'[c].cacheWrite
  /\ calls'[c].result = resolveFromSkillsSh(skillsCache'.data, calls[c].id)
  /\ \A d \in Callers \ {c} : calls'[d] = calls[d]

(* C23: two short-name calls on one resolver are not serialised: each call
   that has ended holds a coordinate or a structured error, and the cache
   changes only when the refresh of one call completes, which stores the
   listing that call read together with the time of that moment, a time
   that is not earlier than the one stored before; so the cache always
   holds the listing and the timestamp of the refresh that completed last. *)
C23_LastRefreshWins ==
  /\ [](\A c \in Callers :
          calls[c].pc = "done" =>
            \/ calls[c].result.status = "ok"
            \/ /\ calls[c].result.status = "error"
               /\ calls[c].result.error.class \in StructuredErrors)
  /\ [][skillsCache' # skillsCache =>
          /\ \E c \in Callers : RefreshCompletes(c)
          /\ skillsCache'.present
          /\ skillsCache'.timestamp = now
          /\ skillsCache'.timestamp >= skillsCache.timestamp]_vars

(* Both calls found the cache empty or expired, both sent a GET and both
   refreshed; the cache holds what the later one stored. *)
C23_Witness ==
  /\ \A c \in Callers :
       /\ calls[c].pc = "done" /\ calls[c].gets = 1 /\ calls[c].cacheWrite
       /\ ~CacheFreshAt(calls[c].cached, calls[c].at)
  /\ calls[1].cached = calls[2].cached
  /\ calls[1].cached.present
  /\ calls[1].wrote.timestamp < calls[2].wrote.timestamp
  /\ calls[1].wrote.data # calls[2].wrote.data
  /\ skillsCache = calls[2].wrote

ParsedNameOf(skill) == skill.frontmatter.map.name.text
SteeringCalled == engine.op = "toSteeringFile"
PartsOf(content) == [i \in 1..Len(content) |-> content[i].part]

(* C25: the steering conversion writes the heading with the name exactly
   when the body does not start with a heading line (1 to 6 '#', whitespace,
   text); the output holds, in this order, the metadata block, that heading
   if written, the description, the whole body, the Dependencies section if
   the skill declares any, and the footer; the filename is the kebab-case
   name followed by '.md'. *)
C25_HeadingInjectedIffBodyHasNone ==
  SteeringCalled =>
    LET skill == engine.input
        out == engine.result
        startsWithHeading == skill.body[1] \in HeadingLines
        declared == /\ "dependencies" \in DOMAIN skill.frontmatter.map
                    /\ skill.frontmatter.map.dependencies.items # <<>>
    IN /\ (\E i \in 1..Len(out.content) : out.content[i].part = "heading")
            <=> ~startsWithHeading
       /\ PartsOf(out.content) =
            <<"frontmatter">>
              \o (IF startsWithHeading THEN <<>> ELSE <<"heading">>)
              \o <<"description", "body">>
              \o (IF declared THEN <<"dependencies">> ELSE <<>>)
              \o <<"footer">>
       /\ \A i \in 1..Len(out.content) :
            /\ out.content[i].part = "heading" => out.content[i].name = ParsedNameOf(skill)
            /\ out.content[i].part = "description" =>
                 out.content[i].value = skill.frontmatter.map.description
            /\ out.content[i].part = "body" => out.content[i].lines = skill.body
       /\ out.filename = toKebabCase(ParsedNameOf(skill)) \o <<".md">>

(* Every HTTP request returns and every backoff timer fires. *)
FetchFairness == WF_vars(FetchAnswer) /\ WF_vars(FetchSleepDone)
SpecFetcherLive == Init /\ [][NextFetcher]_vars /\ FetchFairness

TotalSleeps == Len(fetch.sleeps[1]) + Len(fetch.sleeps[2]) + Len(fetch.sleeps[3])
FetchBounded ==
  /\ Len(fetch.requests) <= 9
  /\ TotalSleeps <= 6
  /\ \A b \in Branches :
       /\ RequestsTo(b) <= 3
       /\ \A i \in 1..Len(fetch.answers[b]) :
            fetch.answers[b][i] = "ok" =>
              /\ i = Len(fetch.answers[b])
              /\ fetch.pc = "done" /\ fetch.result.status = "ok"
              /\ RequestsTo(b) = i
              /\ \A later \in Branches : later > b => RequestsTo(later) = 0
  /\ fetch.pc = "done" => fetch.result.status \in {"ok", "error"}

(* C26: a call of fetchSkill sends at most 9 requests and sleeps at most 6
   times, asks for no ref more than 3 times and for no ref after one has
   answered with the document, and, when every request returns, ends with a
   document or an error. *)
C26_FetchTerminatesWithinNineRequests ==
  /\ []FetchBounded
  /\ (fetch.pc # "idle") ~> (fetch.pc = "done")

C26_Witness ==
  /\ fetch.pc = "done"
  /\ fetch.result.status = "error"
  /\ Len(fetch.requests) = 9
  /\ TotalSleeps = 6

FetchFailed == fetch.pc = "done" /\ fetch.result.status = "error"
LastAnswer(b) == fetch.answers[b][Len(fetch.answers[b])]

(* C27: when all three refs have failed, the error of fetchSkill follows the
   failure of HEAD alone: the 404 error Skill not found when HEAD answered
   404, whatever main and master did, and the error of the exhausted
   retries when HEAD failed three times otherwise, also when main and
   master answered 404. *)
C27_LastRefDecidesError ==
  FetchFailed =>
    /\ \A b \in Branches : fetch.answers[b] # <<>> /\ LastAnswer(b) # "ok"
    /\ LastAnswer(3) = "404" =>
         /\ fetch.result.error.message = "Skill not found"
         /\ fetch.result.error.statusCode = 404
    /\ LastAnswer(3) = "transient" =>
         /\ Len(fetch.answers[3]) = 3
         /\ fetch.result.error.message = "Failed to fetch after 3 attempts"
         /\ fetch.result.error.statusCode # 404

C27_Witness ==
  /\ FetchFailed
  /\ fetch.answers[1] = <<"404">>
  /\ fetch.answers[2] = <<"404">>
  /\ fetch.answers[3] = <<"transient", "transient", "transient">>
  /\ fetch.result.error.message = "Failed to fetch after 3 attempts"

(* The other direction: main and master exhausted their retries and HEAD
   answered 404. *)
C27_WitnessNotFound ==
  /\ FetchFailed
  /\ Len(fetch.answers[1]) = 3 /\ Len(fetch.answers[2]) = 3
  /\ fetch.answers[3] = <<"404">>
  /\ fetch.result.error.message = "Skill not found"

HasIssue(issues, type) == \E i \in 1..Len(issues) : issues[i].type = type
FetchedInImport == ImportRun /\ tool.fetched.status = "ok"
ValidatedInImport == ImportRun /\ tool.validation.status = "ok"

(* C28: in the import pipeline the URL of the fetched content is the one the
   fetcher built on the raw-content origin for the ref that answered, and
   this URL, which starts with the trusted prefix, is the one the validator
   is given: no verdict of the pipeline holds an untrusted_source issue, and
   a verdict that blocks the import holds a dangerous_command issue. *)
C28_PipelineUrlAlwaysTrusted ==
  /\ (tool.pc = "fetching" /\ fetch.pc = "done" /\ fetch.result.status = "ok") =>
       /\ fetch.result.value.url = BranchUrl(tool.resolution.value, fetch.branch)
       /\ fetch.answers[fetch.branch][Len(fetch.answers[fetch.branch])] = "ok"
  /\ FetchedInImport =>
       /\ \E b \in Branches : tool.fetched.url = BranchUrl(tool.resolution.value, b)
       /\ startsWith(tool.fetched.url, githubRawBaseUrl \o <<"/">>)
       /\ isUrlTrusted(tool.fetched.url)
  /\ ValidatedInImport =>
       /\ tool.validation = validateSkillHandler(tool.fetched.content, tool.fetched.url)
       /\ ~HasIssue(tool.validation.value.issues, "untrusted_source")
       /\ BlockedByVerdict => HasIssue(tool.validation.value.issues, "dangerous_command")
  /\ (ImportRun /\ tool.pc = "done" /\ tool.validation.status = "ok") =>
       (BlockedByVerdict <=> ~tool.result.success /\ tool.convertCalls = 0)

C28_Witness ==
  /\ ImportRun /\ tool.pc = "done"
  /\ BlockedByVerdict
  /\ ~tool.result.success
  /\ HasIssue(tool.validation.value.issues, "dangerous_command")
  /\ tool.fetched.url = BranchUrl(tool.resolution.value, 2)

ValidateCalled == verdict.input = "content"
TrustedPrefix == githubRawBaseUrl \o <<"/">>
WithoutTrustedUrl == ValidateCalled /\ ~startsWith(verdict.url, TrustedPrefix)
UnsafeWithSourceFirst ==
  /\ verdict.result.status = "ok"
  /\ verdict.result.value.severity = "unsafe"
  /\ ~verdict.result.value.isValid
  /\ Len(verdict.result.value.issues) >= 1
  /\ verdict.result.value.issues[1].type = "untrusted_source"

(* C29 as stated: validate_skill without a url, or with a url that does not
   start with the trusted prefix, returns severity unsafe and isValid false
   with the untrusted_source issue first, for every content that is not the
   empty text. *)
C29_UntrustedUrlAlwaysUnsafe ==
  (WithoutTrustedUrl /\ verdict.content # emptyText) => UnsafeWithSourceFirst

(* C29 amended: the same for every content that holds a character other
   than whitespace; a content of whitespace alone is rejected with the
   error Skill content is required, as the empty text is. *)
C29_UntrustedUrlUnsafeUnlessBlank ==
  /\ (WithoutTrustedUrl /\ ~isBlank(verdict.content)) =>
       /\ UnsafeWithSourceFirst
       /\ \A i \in 2..Len(verdict.result.value.issues) :
            verdict.result.value.issues[i].type # "untrusted_source"
  /\ (ValidateCalled /\ isBlank(verdict.content)) =>
       verdict.result = Thrown("Skill content is required")

C29_Witness ==
  /\ WithoutTrustedUrl
  /\ verdict.url = <<>>
  /\ verdict.content = <<"text", "rm -rf /">>
  /\ UnsafeWithSourceFirst
  /\ Len(verdict.result.value.issues) >= 2

(* A content with no match at all is unsafe for its source alone. *)
C29_WitnessNoMatch ==
  /\ WithoutTrustedUrl
  /\ verdict.content = <<"text">>
  /\ UnsafeWithSourceFirst
  /\ Len(verdict.result.value.issues) = 1

HeadingLineOf(section) == IF section.level = 1 THEN "# Test" ELSE "### Sub"
(* The lines the sections hold, each section under its heading line. *)
SectionLines(sections) ==
  Concat([k \in 1..Len(sections) |-> <<HeadingLineOf(sections[k])>> \o sections[k].content])
(* The lines of a text that are not blank, without their leading whitespace. *)
InkOf(lines) ==
  SelectSeq([i \in 1..Len(lines) |-> trimStartLine(lines[i])], LAMBDA l : l # "")
FirstHeading(body) ==
  CHOOSE i \in HeadingsOutside(body) : \A j \in HeadingsOutside(body) : i <= j

(* C30: every parsed document has at least one section.  When the body has
   a heading line outside a fenced block, the lines before the first such
   line are in no section: the sections are those of the body from that
   line on, they hold the text of these lines and nothing else, and so they
   hold the text of the whole body exactly when the body starts with the
   heading line. *)
C30_PreambleBelongsToNoSection ==
  ParsedOk =>
    LET body == parsed.result.value.body
        sections == parsed.result.value.sections
    IN /\ Len(sections) >= 1
       /\ HeadingsOutside(body) # {} =>
            LET f == FirstHeading(body)
                rest == SubSeq(body, f, Len(body))
            IN /\ sections = extractSections(rest)
               /\ sections[1].heading = HeadingText(body[f])
               /\ InkOf(SectionLines(sections)) = InkOf(rest)
               /\ (InkOf(SectionLines(sections)) = InkOf(body)) <=> (f = 1)

C30_Witness ==
  /\ ParsedOk
  /\ parsed.result.value.body = <<"Body", "# Test", "Body">>
  /\ parsed.result.value.sections =
       <<[heading |-> "Test", content |-> <<"Body">>, level |-> 1]>>

====
